---- MODULE Spec2Model ----
(***************************************************************************)
(* Verification model of the sarkas parameter setup and potential modules. *)
(*                                                                         *)
(*   SpecPotentials : sarkas/potentials/egs.py and tabulated.py            *)
(*                    (update_params followed by calls of the force        *)
(*                    kernel the update installed)                         *)
(*   SpecEgs        : the EGS module alone, b = 1                          *)
(*   SpecEgsParams  : the EGS module alone, every b                        *)
(*   SpecParams     : sarkas/simulation/params.py                          *)
(*                    (Params.common_parser followed by                    *)
(*                    Params.assign_attributes)                            *)
(*   SpecSections   : the P3M, Magnetized and Integrator sections, and     *)
(*                    force_error_approx_pppm of utilities/maths.py        *)
(*   SpecDirs       : Params.common_parser followed by                     *)
(*                    Params.create_directories                            *)
(*   SpecDensities  : number_density and mass_density of the species       *)
(*   SpecPartition, SpecThermalization, SpecObservables :                  *)
(*                    sarkas/tools/postprocessing.py                       *)
(*   SpecCorrelation: the 1D correlation functions                         *)
(*   SpecKSpace     : the k-space files the structure factors and the      *)
(*                    current correlation functions share                  *)
(*   SpecVacf       : VelocityAutocorrelationFunctions.compute             *)
(*   SpecTransport  : Transport.compute                                    *)
(*   SpecSkw        : calc_Skw                                             *)
(*   SpecPlotLabels : plot_labels, one loop pass per step                  *)
(*                                                                         *)
(* Real quantities are integers in a common unit.  Transcendental values   *)
(* (exp, cos, sin, sqrt) are kept as expression trees, so two kernel       *)
(* results are equal exactly when the kernel evaluated the same formula on *)
(* the same arguments.  numpy arrays are sequences: array index k is       *)
(* sequence index k + 1.                                                   *)
(***************************************************************************)
EXTENDS Integers, Sequences, FiniteSets, TLC

VARIABLES
    \* ---- potential modules -------------------------------------------
    family,           \* which module's update_params runs: "egs" | "tabulated" | "none"
    method,           \* potential.method
    ptype,            \* potential.type
    a_rs,             \* potential.a_rs
    rc,               \* potential.rc
    species_charges,  \* params.species_charges / potential.species_charges
    nu,               \* params.nu
    params_b,         \* params.b
    egs_fp,           \* what the floating point formulas of egs.update_params evaluated to
    tabulated_file,   \* rows of potential.tabulated_file: [r, u, f, f2] columns
    matrix,           \* potential.matrix
    force,            \* potential.force: "none" | "egs_force" | "tab_force"
    pot_pc,           \* "idle" | "init" | "updated" | "raised"
    pot_err,          \* exception update_params ended with, or "none"
    egs_call,         \* last egs_force call
    tab_call,         \* last tab_force call
    \* ---- Params ------------------------------------------------------
    cfg,              \* the YAML document handed to common_parser
    params,           \* the Params object
    par_pc,           \* "idle" | "start" | "parsed" | "dirs" | "assigned" | "exited" | "raised"
    par_err,          \* exception / exit that ended setup, or "none"
    args,             \* the command line arguments handed to create_directories
    fs,               \* the directories that exist, as paths
    fe_call,          \* last force_error_approx_pppm call
    \* ---- post-processing ---------------------------------------------
    species_np,       \* number of particles of each species
    no_dumps,         \* number of saved timesteps
    part,             \* last call that split the particles by species
    control,          \* params.control: dump_step and therm_dump_step
    dumps,            \* steps of the checkpoints in the production and equilibration dumps directories
    therm_call,       \* last Thermalization.hermite_plot / moment_ratios_plot call
    obs,              \* an observable object and the record of its parse calls
    disk,             \* the files of that observable that exist
    \* ---- correlation kernels and plots --------------------------------
    series,           \* the time series handed to the 1D correlation functions
    acf_ret,          \* what autocorrelationfunction_1D returned
    cf_ret,           \* what correlationfunction_1D returned
    PostProcessing,   \* params.PostProcessing: ssf_no_ka_values and dsf_no_ka_values
    k_space_data,     \* the files of <checkpoint_dir>/k_space_data and what they hold
    k_compute,        \* last compute of a k-space observable
    vacf_in,          \* what VelocityAutocorrelationFunctions.compute is called on
    vacf_df,          \* the columns of its dataframe
    transport,        \* a Transport object's calls of compute
    tc_disk,          \* the files the Transport object wrote
    skw_in,           \* the arguments of calc_Skw
    skw_ret,          \* what calc_Skw returned
    plot_in,          \* the data maxima and units handed to plot_labels
    plot_ret          \* how the call of plot_labels ended

pot_vars == <<family, method, ptype, a_rs, rc, species_charges, nu, params_b, egs_fp,
              tabulated_file, matrix, force, pot_pc, pot_err, egs_call, tab_call>>
par_vars == <<cfg, params, par_pc, par_err, args, fs, fe_call>>
post_vars == <<species_np, no_dumps, part, control, dumps, therm_call, obs, disk>>
corr_vars == <<series, acf_ret, cf_ret>>
kspace_vars == <<PostProcessing, k_space_data, k_compute>>
vacf_vars == <<vacf_in, vacf_df>>
transport_vars == <<transport, tc_disk>>
skw_vars == <<skw_in, skw_ret>>
plot_vars == <<plot_in, plot_ret>>
calc_vars == <<corr_vars, kspace_vars, vacf_vars, transport_vars, skw_vars, plot_vars>>
vars == <<family, method, ptype, a_rs, rc, species_charges, nu, params_b, egs_fp,
          tabulated_file, matrix, force, pot_pc, pot_err, egs_call, tab_call,
          cfg, params, par_pc, par_err, args, fs, fe_call,
          species_np, no_dumps, part, control, dumps, therm_call, obs, disk,
          series, acf_ret, cf_ret, PostProcessing, k_space_data, k_compute,
          vacf_in, vacf_df, transport, tc_disk, skw_in, skw_ret, plot_in, plot_ret>>

----------------------------------------------------------------------------
\* Bounds of the model.

\* largest number of species
MaxSpecies == 2
\* species charges are 1..MaxCharge
MaxCharge == 2
\* params.nu ranges over 0..MaxNu (1 is the branch boundary)
MaxNu == 2
\* params.b ranges over 1..MaxB
MaxB == 2
\* potential.a_rs ranges over 1..MaxArs
MaxArs == 2
\* pair distances handed to a kernel range over 0..MaxR
MaxR == 4
\* potential.rc ranges over 1..MaxRc
MaxRc == 4
\* a tabulated file has 2..MaxRows data rows
MaxRows == 4
\* a species has 1..MaxNum particles
MaxNum == 2
\* a species' number_density ranges over 1..MaxDensity
MaxDensity == 1
\* an entry of Np_per_side ranges over 1..MaxSide
MaxSide == 2
\* the cutoff rc of a YAML document ranges over 1..MaxCutoff
MaxCutoff == 2
\* the first grid point of a tabulated file ranges over 0..MaxR0
MaxR0 == 2
\* the grid spacing of a tabulated file ranges over 1..MaxSpacing
MaxSpacing == 2
\* the charge assignment order of a document ranges over 0..MaxCao
MaxCao == 8
\* a species of a post-processed run has 0..MaxCount particles
MaxCount == 2
\* a post-processed run has 1..MaxKinds species
MaxKinds == 3
\* a run saved up to MaxDumps timesteps
MaxDumps == 2
\* dump_step and therm_dump_step range over 1..MaxStep
MaxStep == 2
\* parse() of an observable is called up to MaxParses times
MaxParses == 4

----------------------------------------------------------------------------
\* Helpers.

Max(a, b) == IF a >= b THEN a ELSE b

\* Python's bool used as a number
B2I(c) == IF c THEN 1 ELSE 0

\* expression trees for floating point formulas
Mul(a, b) == <<"*", a, b>>
Div(a, b) == <<"/", a, b>>
Add(a, b) == <<"+", a, b>>
Sub(a, b) == <<"-", a, b>>
Exp(a) == <<"exp", a>>
Cos(a) == <<"cos", a>>
Sin(a) == <<"sin", a>>

SpeciesIdx == 0 .. (Len(species_charges) - 1)

----------------------------------------------------------------------------
\* sarkas/potentials/egs.py

\* update_params, lines 176-181: slots 0, 2, 3, 4, 5 of one pair when nu <= 1.
\* params.alpha, lambda_m, lambda_p are the values lines 157-159 compute.
egs_slots_monotonic(q1, q2) ==
    [k \in {0, 2, 3, 4, 5} |->
        CASE k = 0 -> [op |-> "q1*q2/(2.0*fourpie0)", arg |-> <<q1, q2>>]
          [] k = 2 -> [op |-> "1.0+", arg |-> <<"alpha">>]
          [] k = 3 -> [op |-> "1.0-", arg |-> <<"alpha">>]
          [] k = 4 -> [op |-> "1.0/", arg |-> <<"lambda_m">>]
          [] k = 5 -> [op |-> "1.0/", arg |-> <<"lambda_p">>]]

\* update_params, lines 183-188: slots 0, 2, 3, 4, 5 of one pair when nu > 1.
\* params.alphap, gamma_m, gamma_p are the values lines 164-166 compute.
egs_slots_oscillatory(q1, q2) ==
    [k \in {0, 2, 3, 4, 5} |->
        CASE k = 0 -> [op |-> "q1*q2/fourpie0", arg |-> <<q1, q2>>]
          [] k = 2 -> [op |-> "const", arg |-> <<"1.0">>]
          [] k = 3 -> [op |-> "id", arg |-> <<"alphap">>]
          [] k = 4 -> [op |-> "1.0/", arg |-> <<"gamma_m">>]
          [] k = 5 -> [op |-> "1.0/", arg |-> <<"gamma_p">>]]

\* what zeros((7, S, S)) leaves in a slot no branch wrote
egs_slots_zero ==
    [k \in {0, 2, 3, 4, 5} |-> [op |-> "const", arg |-> <<"0.0">>]]

\* faulty variant of egs_fill_monotonic: the two-Yukawa slots are written for
\* nu < 1 only
egs_fill_monotonic_strict(nu_) == nu_ < 1

\* update_params, line 176: the condition under which the loop writes the
\* two-Yukawa slots
egs_fill_monotonic(nu_) == nu_ <= 1

\* update_params, line 183: the condition under which the loop writes the
\* oscillatory slots
egs_fill_oscillatory(nu_) == nu_ > 1

\* update_params, lines 174-188: the body of the double loop for one pair; the
\* two ifs run one after the other on the zero-initialised slots
egs_pair_slots(nu_, q1, q2) ==
    LET s0 == egs_slots_zero
        s1 == IF egs_fill_monotonic(nu_) THEN egs_slots_monotonic(q1, q2) ELSE s0
        s2 == IF egs_fill_oscillatory(nu_) THEN egs_slots_oscillatory(q1, q2) ELSE s1
    IN  s2

\* update_params, lines 168-190: potential.matrix, shape (7, S, S)
egs_matrix(nu_, charges, ars) ==
    LET idx == 0 .. (Len(charges) - 1) IN
    [k \in 0 .. 6 |-> [i \in idx |-> [j \in idx |->
        IF k = 1 THEN nu_
        ELSE IF k = 6 THEN ars
        ELSE egs_pair_slots(nu_, charges[i + 1], charges[j + 1])[k]]]]

\* the 1-D slice potential.matrix[:, i, j] a kernel receives
pot_slice(m, i, j) == [k \in DOMAIN m |-> m[k][i][j]]

\* faulty variant of egs_regularize: no short-range regularization
egs_regularize_none(r_in, rs) == r_in

\* egs_force, line 247: r = r_in * (r_in >= rs) + rs * (r_in < rs)
egs_regularize(r_in, rs) == r_in * B2I(r_in >= rs) + rs * B2I(r_in < rs)

\* egs_force, line 250: the branch condition pot_matrix[1] <= 1.0
egs_is_monotonic(pot_matrix) == pot_matrix[1] <= 1

\* egs_force, lines 251-256
egs_two_yukawa(r, pot_matrix) ==
    LET temp1 == Mul(pot_matrix[2], Exp(Mul(-r, pot_matrix[4])))
        temp2 == Mul(pot_matrix[3], Exp(Mul(-r, pot_matrix[5])))
        U == Div(Mul(Add(temp1, temp2), pot_matrix[0]), r)
        fr == Add(Div(U, r),
                  Div(Mul(pot_matrix[0],
                          Add(Mul(temp1, pot_matrix[4]), Mul(temp2, pot_matrix[5]))), r))
    IN  <<U, fr>>

\* egs_force, lines 259-265
egs_oscillatory(r, pot_matrix) ==
    LET coskr == Cos(Mul(r, pot_matrix[4]))
        sinkr == Sin(Mul(r, pot_matrix[4]))
        expkr == Mul(pot_matrix[0], Exp(Mul(-r, pot_matrix[5])))
        U == Div(Mul(Add(coskr, Mul(pot_matrix[3], sinkr)), expkr), r)
        fr0 == Div(U, r)
        fr1 == Add(fr0, Mul(U, pot_matrix[5]))
        fr2 == Add(fr1, Div(Mul(Mul(pot_matrix[4],
                                    Sub(sinkr, Mul(pot_matrix[3], coskr))), expkr), r))
    IN  <<U, fr2>>

\* egs_force, lines 249-267, at the regularized distance r
egs_kernel(r, pot_matrix) ==
    IF egs_is_monotonic(pot_matrix)
    THEN egs_two_yukawa(r, pot_matrix)
    ELSE egs_oscillatory(r, pot_matrix)

\* egs_force(r_in, pot_matrix), lines 245-267
egs_force(r_in, pot_matrix) ==
    LET rs == pot_matrix[6]
        r == egs_regularize(r_in, rs)
    IN  egs_kernel(r, pot_matrix)

\* update_params, lines 155-166.  numpy's sqrt and the float division do not
\* raise: a quotient with a zero divisor is "inf" (or "nan" for 0/0) and the
\* square root of a negative number is "nan"; every other value is "finite".
\* nu_ and b_ are exact, b_ > 0, so the sign of sqrt(nu_) - b_ is the sign of
\* nu_ - b_^2.

\* line 157: lambda_TF * sqrt(nu / (2 b + 2 sqrt(b^2 - nu)))
egs_lambda_p(nu_, b_) ==
    IF b_ ^ 2 - nu_ < 0 THEN "nan" ELSE "finite"

\* line 158: lambda_TF * sqrt(nu / (2 b - 2 sqrt(b^2 - nu))); the divisor is
\* zero exactly when nu = 0
egs_lambda_m(nu_, b_) ==
    IF b_ ^ 2 - nu_ < 0 THEN "nan"
    ELSE IF nu_ = 0 THEN "nan"
    ELSE "finite"

\* line 159: b / sqrt(b - nu)
egs_alpha(nu_, b_) ==
    IF b_ - nu_ < 0 THEN "nan"
    ELSE IF b_ - nu_ = 0 THEN "inf"
    ELSE "finite"

\* line 164: lambda_TF * sqrt(nu / (sqrt(nu) - b))
egs_gamma_m(nu_, b_) ==
    IF nu_ - b_ ^ 2 < 0 THEN "nan"
    ELSE IF nu_ - b_ ^ 2 = 0 THEN "inf"
    ELSE "finite"

\* line 165: lambda_TF * sqrt(nu / (sqrt(nu) + b))
egs_gamma_p(nu_, b_) == "finite"

\* line 166: b / sqrt(nu - b)
egs_alphap(nu_, b_) ==
    IF nu_ - b_ < 0 THEN "nan"
    ELSE IF nu_ - b_ = 0 THEN "inf"
    ELSE "finite"

NoEgsFp == [alpha |-> "unset", lambda_p |-> "unset", lambda_m |-> "unset",
            alphap |-> "unset", gamma_p |-> "unset", gamma_m |-> "unset"]

\* update_params, lines 155-166: the two ifs
egs_float_params(nu_, b_) ==
    IF nu_ <= 1
    THEN [NoEgsFp EXCEPT !.lambda_p = egs_lambda_p(nu_, b_),
                         !.lambda_m = egs_lambda_m(nu_, b_),
                         !.alpha = egs_alpha(nu_, b_)]
    ELSE [NoEgsFp EXCEPT !.gamma_m = egs_gamma_m(nu_, b_),
                         !.gamma_p = egs_gamma_p(nu_, b_),
                         !.alphap = egs_alphap(nu_, b_)]

\* force_error_analytic_pp, maths.py lines 92-111: the types one of the
\* branches binds force_error for
force_error_types == {"yukawa", "egs", "moliere", "lj"}

\* egs.update_params(potential, params).  params.nu (lines 126-128) is the value
\* eq. (14) yields for the configured plasma and b (lines 131-150) the value
\* eq. (31) yields for it; they are drawn when the run starts.
EgsUpdateParams ==
    /\ pot_pc = "init"
    /\ family = "egs"
    /\ egs_fp' = egs_float_params(nu, params_b)
    /\ matrix' = egs_matrix(nu, species_charges, a_rs)
    /\ IF method = "pppm"
       THEN /\ pot_err' = "AlgorithmError"
            /\ pot_pc' = "raised"
            /\ force' = force
       ELSE /\ force' = "egs_force"
            /\ IF ptype \in force_error_types
               THEN pot_err' = "none" /\ pot_pc' = "updated"
               ELSE pot_err' = "UnboundLocalError" /\ pot_pc' = "raised"
    /\ UNCHANGED <<family, method, ptype, a_rs, rc, species_charges, nu, params_b,
                   tabulated_file, egs_call, tab_call>>
    /\ UNCHANGED par_vars
    /\ UNCHANGED post_vars
    /\ UNCHANGED calc_vars

NoEgsCall == [done |-> FALSE, r_in |-> 0, i |-> 0, j |-> 0, out |-> <<>>]

\* one pair evaluation: potential.force(r, potential.matrix[:, i, j]) with
\* potential.force = egs_force
EgsForceCall ==
    /\ pot_pc = "updated"
    /\ force = "egs_force"
    /\ \E i \in SpeciesIdx, j \in SpeciesIdx, r_in \in 0 .. MaxR :
          egs_call' = [done |-> TRUE, r_in |-> r_in, i |-> i, j |-> j,
                       out |-> egs_force(r_in, pot_slice(matrix, i, j))]
    /\ UNCHANGED <<family, method, ptype, a_rs, rc, species_charges, nu, params_b, egs_fp,
                   tabulated_file, matrix, force, pot_pc, pot_err, tab_call>>
    /\ UNCHANGED par_vars
    /\ UNCHANGED post_vars
    /\ UNCHANGED calc_vars

----------------------------------------------------------------------------
\* sarkas/potentials/tabulated.py

\* a tabulated file on the uniform grid r0, r0 + spacing, ...; its U, F and F'
\* columns hold distinct values so that a column is recognised by its content
TabFile(r0, spacing, nrows, v0) ==
    [r  |-> [k \in 1 .. nrows |-> r0 + (k - 1) * spacing],
     u  |-> [k \in 1 .. nrows |-> v0 + k],
     f  |-> [k \in 1 .. nrows |-> 2 * (v0 + k)],
     f2 |-> [k \in 1 .. nrows |-> 3 * (v0 + k)]]

\* where(cond)[0]: the (1-based) positions of column r whose value is below lim,
\* in ascending order
where_below(r, lim) ==
    SelectSeq([k \in 1 .. Len(r) |-> k], LAMBDA k : r[k] < lim)

\* col[mask]
take(col, mask) == [m \in 1 .. Len(mask) |-> col[mask[m]]]

\* update_params, line 128: dr = r[1] - r[2]
tab_dr(r) == r[2] - r[3]

\* update_params, lines 129-140: potential.matrix, shape (S, S, 4, params_len)
tab_matrix(file, charges, rc_) ==
    LET dr == tab_dr(file.r)
        mask == where_below(file.r, rc_ + dr)
        idx == 0 .. (Len(charges) - 1)
    IN  [i \in idx |-> [j \in idx |->
            [k \in 0 .. 3 |->
                CASE k = 0 -> take(file.r, mask)
                  [] k = 1 -> take(file.u, mask)
                  [] k = 2 -> take(file.f, mask)
                  [] k = 3 -> take(file.f2, mask)]]]

\* tabulated.update_params(potential).  The function does not look at
\* potential.method.  r[2] needs three data rows (IndexError otherwise);
\* calc_force_error_quad interpolates in potential.matrix[0, 0], and numpy's
\* interp refuses an empty table (ValueError).
TabUpdateParams ==
    /\ pot_pc = "init"
    /\ family = "tabulated"
    /\ IF Len(tabulated_file.r) < 3
       THEN /\ pot_err' = "IndexError"
            /\ pot_pc' = "raised"
            /\ UNCHANGED <<matrix, force>>
       ELSE /\ matrix' = tab_matrix(tabulated_file, species_charges, rc)
            /\ force' = "tab_force"
            /\ IF Len(matrix'[0][0][0]) = 0
               THEN pot_err' = "ValueError" /\ pot_pc' = "raised"
               ELSE pot_err' = "none" /\ pot_pc' = "updated"
    /\ UNCHANGED <<family, method, ptype, a_rs, rc, species_charges, nu, params_b, egs_fp,
                   tabulated_file, egs_call, tab_call>>
    /\ UNCHANGED par_vars
    /\ UNCHANGED post_vars
    /\ UNCHANGED calc_vars

\* tab_force, line 52: dr = pot_matrix[0, 0]
tab_force_dr(pot_matrix) == pot_matrix[0][1]

\* tab_force, line 53: rbin = int(r / dr), for r >= 0 and dr > 0
tab_force_rbin(r, dr) == r \div dr

\* tab_force(r, pot_matrix), lines 52-58: the set of outcomes.  The element
\* pot_matrix[1, rbin] is read before the mask (rbin < shape[1]) is applied.
\* Compiled without bounds checking, a read at rbin >= shape[1] yields whatever
\* the memory holds: a finite value (times 0 gives 0.0), a non-finite one
\* (times 0 gives nan), or a fault; interpreted, it raises IndexError.
\* read is the column index the function reads.
tab_force(r, pot_matrix) ==
    LET ncols == Len(pot_matrix[0])
        dr == tab_force_dr(pot_matrix)
    IN  IF dr = 0
        THEN {[raised |-> "ZeroDivisionError", dr |-> dr, rbin |-> 0, read |-> 0,
               nan |-> FALSE, u_r |-> 0, f_r |-> 0]}
        ELSE LET rbin == tab_force_rbin(r, dr) IN
             IF rbin < ncols
             THEN {[raised |-> "none", dr |-> dr, rbin |-> rbin, read |-> rbin,
                    nan |-> FALSE,
                    u_r |-> pot_matrix[1][rbin + 1] * B2I(rbin < ncols) + 0,
                    f_r |-> pot_matrix[2][rbin + 1] * B2I(rbin < ncols) + 0]}
             ELSE {[raised |-> e, dr |-> dr, rbin |-> rbin, read |-> rbin,
                    nan |-> n, u_r |-> 0, f_r |-> 0] :
                        <<e, n>> \in {<<"none", FALSE>>, <<"none", TRUE>>,
                                      <<"SIGSEGV", FALSE>>, <<"IndexError", FALSE>>}}

NoTabCall == [done |-> FALSE, r |-> 0, i |-> 0, j |-> 0, raised |-> "none", dr |-> 0,
              rbin |-> 0, read |-> 0, nan |-> FALSE, u_r |-> 0, f_r |-> 0]

\* one pair evaluation: potential.force(r, potential.matrix[i, j]) with
\* potential.force = tab_force
TabForceCall ==
    /\ pot_pc = "updated"
    /\ force = "tab_force"
    /\ \E i \in SpeciesIdx, j \in SpeciesIdx, r \in 0 .. MaxR :
          \E o \in tab_force(r, matrix[i][j]) :
              tab_call' = [done |-> TRUE, r |-> r, i |-> i, j |-> j,
                           raised |-> o.raised, dr |-> o.dr, rbin |-> o.rbin,
                           read |-> o.read, nan |-> o.nan, u_r |-> o.u_r, f_r |-> o.f_r]
    /\ UNCHANGED <<family, method, ptype, a_rs, rc, species_charges, nu, params_b, egs_fp,
                   tabulated_file, matrix, force, pot_pc, pot_err, egs_call>>
    /\ UNCHANGED par_vars
    /\ UNCHANGED post_vars
    /\ UNCHANGED calc_vars

----------------------------------------------------------------------------
\* The potential modules as a state machine.

ChargeLists ==
    UNION {[1 .. n -> 1 .. MaxCharge] : n \in 1 .. MaxSpecies}

\* potential.method: "PP" and "P3M" as Params.Potential documents them, and the
\* spelling egs.update_params compares with
Methods == {"PP", "P3M", "pppm"}

NoFile == [r |-> <<>>, u |-> <<>>, f |-> <<>>, f2 |-> <<>>]

CorrIdle ==
    /\ series = <<>>
    /\ acf_ret = <<>>
    /\ cf_ret = <<>>

KSpaceIdle ==
    /\ PostProcessing = <<>>
    /\ k_space_data = <<>>
    /\ k_compute = <<>>

VacfIdle ==
    /\ vacf_in = <<>>
    /\ vacf_df = <<>>

TransportIdle ==
    /\ transport = <<>>
    /\ tc_disk = {}

SkwIdle ==
    /\ skw_in = <<>>
    /\ skw_ret = <<>>

PlotIdle ==
    /\ plot_in = <<>>
    /\ plot_ret = <<>>

CalcIdle ==
    /\ CorrIdle
    /\ KSpaceIdle
    /\ VacfIdle
    /\ TransportIdle
    /\ SkwIdle
    /\ PlotIdle

PostIdle ==
    /\ species_np = <<>>
    /\ no_dumps = 0
    /\ part = <<>>
    /\ control = <<>>
    /\ dumps = <<>>
    /\ therm_call = <<>>
    /\ obs = <<>>
    /\ disk = {}

ParamsIdle ==
    /\ cfg = <<>>
    /\ params = <<>>
    /\ par_pc = "idle"
    /\ par_err = "none"
    /\ args = <<>>
    /\ fs = {}
    /\ fe_call = <<>>

\* the inputs of a potential module, b apart
PotentialInputs ==
    /\ family \in {"egs", "tabulated"}
    /\ method \in Methods
    /\ species_charges \in ChargeLists
    /\ IF family = "egs"
       THEN /\ ptype \in {"egs", "EGS"}
            /\ a_rs \in 1 .. MaxArs
            /\ nu \in 0 .. MaxNu
            /\ rc = MaxRc
            /\ tabulated_file = NoFile
       ELSE /\ ptype = "tabulated"
            /\ a_rs \in 1 .. MaxArs
            /\ nu = 0
            /\ rc \in 1 .. MaxRc
            /\ \E r0 \in 0 .. MaxR0, spacing \in 1 .. MaxSpacing, nrows \in 2 .. MaxRows :
                  tabulated_file = TabFile(r0, spacing, nrows, 1)
    /\ matrix = <<>>
    /\ force = "none"
    /\ pot_pc = "init"
    /\ pot_err = "none"
    /\ egs_call = NoEgsCall
    /\ tab_call = NoTabCall
    /\ egs_fp = NoEgsFp
    /\ ParamsIdle
    /\ PostIdle
    /\ CalcIdle

\* exchange-correlation neglected: params.b = 1.0 (line 150)
InitPotentials == PotentialInputs /\ params_b = 1

NextPotentials ==
    \/ EgsUpdateParams
    \/ EgsForceCall
    \/ TabUpdateParams
    \/ TabForceCall

SpecPotentials == InitPotentials /\ [][NextPotentials]_vars

\* the EGS module alone
InitEgs == InitPotentials /\ family = "egs"

NextEgs ==
    \/ EgsUpdateParams
    \/ EgsForceCall

SpecEgs == InitEgs /\ [][NextEgs]_vars

\* the EGS module for every b
InitEgsParams == PotentialInputs /\ family = "egs" /\ params_b \in 1 .. MaxB

NextEgsParams ==
    \/ EgsUpdateParams
    \/ EgsForceCall

SpecEgsParams == InitEgsParams /\ [][NextEgsParams]_vars

----------------------------------------------------------------------------
\* Properties of the potential modules (C1, C2, C6 under SpecEgs; C3, C4, C5, C7
\* under SpecPotentials).

\* the slice and the charges of the pair the last egs_force call was made for
EgsCallSlice == pot_slice(matrix, egs_call.i, egs_call.j)

C3_TabForceStaysInTable ==
    (tab_call.done /\ tab_call.raised # "ZeroDivisionError") =>
        LET ncols == Len(matrix[tab_call.i][tab_call.j][0]) IN
        /\ tab_call.read < ncols
        /\ tab_call.rbin >= ncols =>
              /\ tab_call.raised = "none"
              /\ ~tab_call.nan
              /\ tab_call.u_r = 0
              /\ tab_call.f_r = 0

\* C4: tab_force(r, table) returns the U and F stored in column floor(r/dr),
\* where dr is the grid spacing r[k+1] - r[k] of the file update_params loaded;
\* the value tab_force uses as dr equals that spacing for every table.
C4_TabForceUsesGridSpacing ==
    tab_call.done =>
        LET pm == matrix[tab_call.i][tab_call.j]
            ncols == Len(pm[0])
            spacing == tabulated_file.r[2] - tabulated_file.r[1]
            bin == tab_call.r \div spacing
        IN  /\ tab_call.dr = spacing
            /\ bin < ncols =>
                  /\ tab_call.raised = "none"
                  /\ ~tab_call.nan
                  /\ tab_call.u_r = pm[1][bin + 1]
                  /\ tab_call.f_r = pm[2][bin + 1]

\* C5: for every potential family, after its update_params has run the last slot
\* of the parameter tensor equals the short-range cutoff a_rs for every pair.
C5_LastSlotIsCutoff ==
    pot_pc = "updated" =>
        \A i \in SpeciesIdx, j \in SpeciesIdx :
            IF family = "egs"
            THEN matrix[6][i][j] = a_rs
            ELSE LET last == matrix[i][j][3] IN
                 /\ Len(last) > 0
                 /\ \A k \in 1 .. Len(last) : last[k] = a_rs

\* C6: the P3M method together with the EGS potential makes egs.update_params
\* raise AlgorithmError, so setup never completes with potential.force =
\* egs_force under P3M.
C6_EgsRejectsP3M ==
    (family = "egs" /\ method = "P3M" /\ pot_pc # "init") =>
        /\ pot_err = "AlgorithmError"
        /\ force # "egs_force"

\* C7: the P3M method together with the tabulated potential makes
\* tabulated.update_params fail with AlgorithmError; it never returns normally
\* with potential.force = tab_force when the method is P3M.
C7_TabRejectsP3M ==
    (family = "tabulated" /\ method = "P3M" /\ pot_pc # "init") =>
        /\ pot_err = "AlgorithmError"
        /\ ~(pot_pc = "updated" /\ force = "tab_force")

\* C20 (checked under SpecPotentials): for a tabulated file on an ascending
\* uniform grid, the truncation in tabulated.update_params keeps every row with
\* r <= rc (the rows with r < rc + dr for the positive grid spacing dr), so
\* every pair distance up to the cutoff rc has a table column.
C20_TableCoversCutoff ==
    (family = "tabulated" /\ pot_pc = "updated") =>
        LET spacing == tabulated_file.r[2] - tabulated_file.r[1]
            kept == matrix[0][0][0]
        IN  /\ \A k \in 1 .. Len(tabulated_file.r) :
                  tabulated_file.r[k] <= rc =>
                      \E m \in 1 .. Len(kept) : kept[m] = tabulated_file.r[k]
            /\ kept = take(tabulated_file.r, where_below(tabulated_file.r, rc + spacing))

\* C19 (checked under SpecEgsParams): for every parameter set with nu <= 1, the
\* boundary nu = 1 included (e.g. with b = 1), egs.update_params computes alpha,
\* lambda_plus and lambda_minus without dividing by zero and without taking
\* the square root of a negative number; for every nu > 1 the same holds for
\* alpha', gamma_plus and gamma_minus.
C19_EgsParametersFinite ==
    (family = "egs" /\ pot_pc # "init") =>
        IF nu <= 1
        THEN {egs_fp.alpha, egs_fp.lambda_p, egs_fp.lambda_m} = {"finite"}
        ELSE {egs_fp.alphap, egs_fp.gamma_p, egs_fp.gamma_m} = {"finite"}

----------------------------------------------------------------------------
\* sarkas/simulation/params.py
\*
\* The YAML document is the record cfg; a key the document leaves out has the
\* value the constructors give the attribute (method "PP", empty axis lists,
\* empty np_per_side).  Modelled sections: Particles (species num and
\* number_density), Potential, BoundaryConditions, Control (Np_per_side); every
\* species entry carries the keys the loops of assign_attributes read.
\*
\* Box lengths: aws = (3 / (4 pi n))^(1/3) with n = total_num_density, so
\* Lx = aws * np_per_side[0] * (4 pi / 3)^(1/3) = np_per_side[0] / n^(1/3) and, without
\* np_per_side, Lx = (N / n)^(1/3).  The model keeps the exact integer
\* Lv3[k] = Lv[k]^3 * n, and compares lengths through their cubes.

RECURSIVE SeqProd(_)
\* int(np.prod(a))
SeqProd(a) == IF Len(a) = 0 THEN 1 ELSE Head(a) * SeqProd(Tail(a))

RECURSIVE SeqSum(_)
SeqSum(a) == IF Len(a) = 0 THEN 0 ELSE Head(a) + SeqSum(Tail(a))

\* An attribute that is None, or that no statement has set yet, is the empty
\* sequence; an attribute with the value v is <<v>>.
None == <<>>

Some(v) == <<v>>

\* os.path.join(a, b) for a relative b: paths are sequences of components
path_join(a, b) == a \o b

\* Params.__init__ and the constructors of its nested classes.  Control.__init__
\* sets neither dump_dir nor therm_dir, P3M.__init__ does not set cao, and
\* Integrator.__init__ sets nothing.
Params__init__ ==
    [species |-> <<>>,
     total_num_density |-> 0,
     total_num_ptcls |-> 0,
     num_species |-> 1,
     potential_type |-> "unset",
     potential_method |-> "PP",
     potential_rc |-> 0,
     pbc_axes |-> <<>>, mm_axes |-> <<>>, open_axes |-> <<>>,
     pbc_axes_indx |-> <<>>, mm_axes_indx |-> <<>>, open_axes_indx |-> <<>>,
     np_per_side |-> <<>>,
     Lv3 |-> <<>>,
     pppm_on |-> FALSE,
     pppm_cao |-> None,
     Magnetic_on |-> FALSE,
     Magnetic_elec_therm |-> TRUE,
     integrator_type |-> None,
     integrator_mag_type |-> None,
     simulations_dir |-> <<"Simulations">>,
     job_dir |-> None,
     job_id |-> None,
     log_file |-> None,
     dump_dir |-> None,
     therm_dir |-> None,
     therm_dump_dir |-> None]

\* common_parser, lines 586-619: one Species object per species entry
parse_species(e) ==
    [num |-> e.num,
     num_density |-> IF "number_density" \in e.keys THEN Some(e.number_density) ELSE None,
     mass_density |-> IF "mass_density" \in e.keys THEN Some(e.mass_density) ELSE None,
     atomic_weight |-> e.A]

\* common_parser, lines 595-597: the number_density keys accumulate
parsed_num_density(e) == IF "number_density" \in e.keys THEN e.number_density ELSE 0

\* the value the loop variable `value` holds when the loops over the document
\* end (read on line 830): the value of the last key of the last section
last_value(c) ==
    CASE c.last_section = "Integrator" -> c.Integrator_type[1]
      [] c.last_section = "Magnetized" ->
            IF c.Magnetized_elec_therm[1] THEN "True" ELSE "False"
      [] OTHER -> "control_value"

\* common_parser: the species entries are appended in order and the totals
\* accumulate (586-604); Potential, BoundaryConditions and Control keys are
\* stored; P3M (659-676), Magnetized (711-728), Integrator (730-734); the
\* conflict check of lines 828-831 runs after the loops.
common_parser(p, c) ==
    LET p1 == [p EXCEPT
                !.species = [k \in 1 .. Len(c.species) |-> parse_species(c.species[k])],
                !.total_num_density =
                    p.total_num_density
                      + SeqSum([k \in 1 .. Len(c.species) |-> parsed_num_density(c.species[k])]),
                !.total_num_ptcls =
                    p.total_num_ptcls + SeqSum([k \in 1 .. Len(c.species) |-> c.species[k].num]),
                !.potential_type = c.potential_type,
                !.potential_method = c.potential_method,
                !.potential_rc = c.potential_rc,
                !.pbc_axes = c.periodic,
                !.mm_axes = c.momentum_mirror,
                !.open_axes = c.open,
                !.np_per_side = c.Np_per_side,
                !.pppm_on = (c.P3M_cao # None),
                !.pppm_cao = c.P3M_cao,
                !.Magnetic_on = (c.Magnetized_elec_therm # None),
                !.Magnetic_elec_therm =
                    IF c.Magnetized_elec_therm # None
                    THEN c.Magnetized_elec_therm[1]
                    ELSE p.Magnetic_elec_therm,
                !.integrator_type = c.Integrator_type,
                !.job_dir = c.job_dir,
                !.job_id = c.job_id]
    IN  IF p1.Magnetic_on /\ p1.Magnetic_elec_therm
        THEN [p1 EXCEPT !.integrator_mag_type = Some(last_value(c)),
                        !.integrator_type = Some("Verlet")]
        ELSE p1

\* Params.common_parser(filename)
CommonParser ==
    /\ par_pc = "start"
    /\ params' = common_parser(Params__init__, cfg)
    /\ par_pc' = "parsed"
    /\ UNCHANGED <<cfg, par_err, args, fs, fe_call>>
    /\ UNCHANGED pot_vars
    /\ UNCHANGED post_vars
    /\ UNCHANGED calc_vars

\* os.path.exists(path); the working directory is the empty path
path_exists(dirs, path) == path = <<>> \/ path \in dirs

\* os.mkdir(path) succeeds when the parent exists and path does not
mkdir_error(dirs, path) ==
    IF path_exists(dirs, path) THEN "FileExistsError"
    ELSE IF ~path_exists(dirs, SubSeq(path, 1, Len(path) - 1)) THEN "FileNotFoundError"
    ELSE "none"

\* `if not os.path.exists(path): os.mkdir(path)`: [err, dirs]
ensure_dir(dirs, path) ==
    IF path_exists(dirs, path)
    THEN [err |-> "none", dirs |-> dirs]
    ELSE IF mkdir_error(dirs, path) # "none"
    THEN [err |-> mkdir_error(dirs, path), dirs |-> dirs]
    ELSE [err |-> "none", dirs |-> dirs \cup {path}]

\* create_directories, lines 851-859
choose_job_dir(p, a) ==
    IF p.job_dir = None
    THEN IF a.job_dir = None THEN Some(<<"job_dir">>) ELSE a.job_dir
    ELSE IF a.job_dir # None THEN a.job_dir ELSE p.job_dir

\* faulty variant of choose_job_id: a job_id of the document is kept
choose_job_id_yaml_first(p, a) ==
    IF p.job_id = None
    THEN IF a.job_id = None /\ a.job_dir = None THEN Some(<<"jobid">>)
         ELSE IF a.job_id = None /\ a.job_dir # None THEN a.job_dir
         ELSE a.job_id
    ELSE p.job_id

\* create_directories, lines 861-871
choose_job_id(p, a) ==
    IF p.job_id = None
    THEN IF a.job_id = None /\ a.job_dir = None THEN Some(<<"jobid">>)
         ELSE IF a.job_id = None /\ a.job_dir # None THEN a.job_dir
         ELSE a.job_id
    ELSE IF a.job_id # None THEN a.job_id ELSE p.job_id

\* Params.create_directories(args): [pc, err, params, dirs] it ends with
create_directories(p, a, dirs) ==
    LET p1 == [p EXCEPT !.job_dir = choose_job_dir(p, a), !.job_id = choose_job_id(p, a)]
        e1 == ensure_dir(dirs, p1.simulations_dir)
        p2 == [p1 EXCEPT !.job_dir = Some(path_join(p1.simulations_dir, p1.job_dir[1]))]
        e2 == ensure_dir(e1.dirs, p2.job_dir[1])
        p3 == [p2 EXCEPT !.dump_dir = Some(path_join(p2.job_dir[1], p2.dump_dir[1]))]
        e3 == ensure_dir(e2.dirs, p3.dump_dir[1])
        p4 == [p3 EXCEPT !.therm_dir = Some(path_join(p3.job_dir[1], p3.therm_dir[1]))]
        e4 == ensure_dir(e3.dirs, p4.therm_dir[1])
        p5 == [p4 EXCEPT !.therm_dump_dir = Some(path_join(p4.therm_dir[1], <<"dumps">>))]
        e5 == ensure_dir(e4.dirs, p5.therm_dump_dir[1])
        p6 == IF p5.log_file = None
              THEN [p5 EXCEPT !.log_file = Some(path_join(p5.job_dir[1], <<"log.out">>))]
              ELSE p5
    IN  IF e1.err # "none"
        THEN [pc |-> "raised", err |-> e1.err, params |-> p1, dirs |-> e1.dirs]
        ELSE IF e2.err # "none"
        THEN [pc |-> "raised", err |-> e2.err, params |-> p2, dirs |-> e2.dirs]
        ELSE IF p2.dump_dir = None
        THEN [pc |-> "raised", err |-> "AttributeError", params |-> p2, dirs |-> e2.dirs]
        ELSE IF e3.err # "none"
        THEN [pc |-> "raised", err |-> e3.err, params |-> p3, dirs |-> e3.dirs]
        ELSE IF p3.therm_dir = None
        THEN [pc |-> "raised", err |-> "AttributeError", params |-> p3, dirs |-> e3.dirs]
        ELSE IF e4.err # "none"
        THEN [pc |-> "raised", err |-> e4.err, params |-> p4, dirs |-> e4.dirs]
        ELSE IF e5.err # "none"
        THEN [pc |-> "raised", err |-> e5.err, params |-> p5, dirs |-> e5.dirs]
        ELSE [pc |-> "dirs", err |-> "none", params |-> p6, dirs |-> e5.dirs]

\* Params.create_directories(args), called by setup after common_parser
CreateDirectories ==
    /\ par_pc = "parsed"
    /\ LET o == create_directories(params, args, fs) IN
          /\ params' = o.params
          /\ par_pc' = o.pc
          /\ par_err' = o.err
          /\ fs' = o.dirs
    /\ UNCHANGED <<cfg, args, fe_call>>
    /\ UNCHANGED pot_vars
    /\ UNCHANGED post_vars
    /\ UNCHANGED calc_vars

\* assign_attributes, lines 998-1004 (and 1010-1016, 1020-1026)
axis_indx(bc) ==
    CASE bc = "x" -> 0
      [] bc = "y" -> 1
      [] bc = "z" -> 2
      [] OTHER -> 0

axes_indx(axes) == [k \in 1 .. Len(axes) |-> axis_indx(axes[k])]

\* faulty variant of np_per_side_total: the entries are added
np_per_side_total_sum(np_per_side) == SeqSum(np_per_side)

\* assign_attributes, line 972: int(np.prod(self.control.np_per_side))
np_per_side_total(np_per_side) == SeqProd(np_per_side)

\* assign_attributes, lines 974-980: the cubes of Lx, Ly, Lz times n
box_Lv3(p) ==
    IF Len(p.np_per_side) # 0
    THEN [k \in 1 .. 3 |-> p.np_per_side[k] ^ 3]
    ELSE [k \in 1 .. 3 |-> p.total_num_ptcls]

\* Avogadro constant, in the unit that makes mass_density * Av / atomic_weight
\* a whole number of model density units
Av == 2

\* assign_attributes, line 928: the number density of a species that gives a
\* mass density
mass_num_density(sp) == (sp.mass_density[1] * Av) \div sp.atomic_weight

\* assign_attributes, lines 926-929, for one species
assign_mass_density(sp) ==
    IF sp.mass_density # None
    THEN [sp EXCEPT !.num_density = Some(mass_num_density(sp))]
    ELSE sp

\* assign_attributes, line 929: what the loop adds to total_num_density
added_num_density(sp) == IF sp.mass_density # None THEN mass_num_density(sp) ELSE 0

\* assign_attributes, lines 915-929: the loop over the species
assign_densities(p) ==
    [p EXCEPT
        !.num_species = Len(p.species),
        !.species = [k \in 1 .. Len(p.species) |-> assign_mass_density(p.species[k])],
        !.total_num_density =
            p.total_num_density
              + SeqSum([k \in 1 .. Len(p.species) |-> added_num_density(p.species[k])])]

\* Params.assign_attributes(): [pc, err, params] it ends with.  np_int says
\* whether the installed numpy still defines np.int (line 1019).  Every
\* species entry carries Z and temperature, so line 967 reads num_density of
\* every species.
assign_attributes(p, np_int) ==
    LET p0 == assign_densities(p) IN
    IF Len(p0.species) # 0 /\ p0.total_num_ptcls = 0
    THEN [pc |-> "raised", err |-> "ZeroDivisionError", params |-> p0]
    ELSE IF p0.total_num_density = 0
    THEN [pc |-> "raised", err |-> "ZeroDivisionError", params |-> p0]
    ELSE IF /\ p0.potential_type \in {"Yukawa", "EGS"}
            /\ \E k \in 1 .. Len(p0.species) : p0.species[k].num_density = None
    THEN [pc |-> "raised", err |-> "AttributeError", params |-> p0]
    ELSE IF /\ Len(p0.np_per_side) # 0
            /\ np_per_side_total(p0.np_per_side) # p0.total_num_ptcls
    THEN [pc |-> "raised", err |-> "AssertionError", params |-> p0]
    ELSE LET p1 == [p0 EXCEPT !.Lv3 = box_Lv3(p0)]
             p2 == IF Len(p1.pbc_axes) # 0
                   THEN [p1 EXCEPT !.pbc_axes_indx = axes_indx(p1.pbc_axes)]
                   ELSE p1
         IN  IF Len(p2.mm_axes) # 0
             THEN [pc |-> "exited", err |-> "SystemExit", params |-> p2]
             ELSE IF Len(p2.open_axes) # 0
             THEN IF np_int
                  THEN [pc |-> "assigned", err |-> "none",
                        params |-> [p2 EXCEPT !.open_axes_indx = axes_indx(p2.open_axes)]]
                  ELSE [pc |-> "raised", err |-> "AttributeError", params |-> p2]
             ELSE [pc |-> "assigned", err |-> "none", params |-> p2]

\* Params.assign_attributes()
AssignAttributes ==
    /\ par_pc = "parsed"
    /\ \E np_int \in BOOLEAN :
          LET o == assign_attributes(params, np_int) IN
          /\ params' = o.params
          /\ par_pc' = o.pc
          /\ par_err' = o.err
    /\ UNCHANGED <<cfg, args, fs, fe_call>>
    /\ UNCHANGED pot_vars
    /\ UNCHANGED post_vars
    /\ UNCHANGED calc_vars

----------------------------------------------------------------------------
\* sarkas/utilities/maths.py

\* force_error_approx_pppm, lines 38-53: the number of entries of Cmp, None when
\* no branch of the if/elif chain binds it
Cmp_len(p) == IF p \in 1 .. 7 THEN Some(p) ELSE None

\* force_error_approx_pppm(kappa, rc, p, h, alpha): the outcomes of a call.  The
\* loop of lines 56-58 reads Cmp[m] for m in np.arange(p); reading the unbound
\* Cmp fails in the way the numba build reports it.
force_error_approx_pppm(p) ==
    IF p <= 0
    THEN {[done |-> TRUE, p |-> p, raised |-> "none", table |-> Cmp_len(p), reads |-> 0]}
    ELSE IF Cmp_len(p) = None
    THEN {[done |-> TRUE, p |-> p, raised |-> e, table |-> None, reads |-> 0] :
             e \in {"UnboundLocalError", "NameError"}}
    ELSE {[done |-> TRUE, p |-> p, raised |-> "none", table |-> Cmp_len(p), reads |-> p]}

NoFeCall == [done |-> FALSE, p |-> 0, raised |-> "none", table |-> None, reads |-> 0]

\* the force error estimate of a P3M run, computed with p = params.pppm.cao once
\* the parameters are assigned
ForceErrorCall ==
    /\ par_pc = "assigned"
    /\ params.pppm_on
    /\ params.pppm_cao # None
    /\ ~fe_call.done
    /\ fe_call' \in force_error_approx_pppm(params.pppm_cao[1])
    /\ UNCHANGED <<cfg, params, par_pc, par_err, args, fs>>
    /\ UNCHANGED pot_vars
    /\ UNCHANGED post_vars
    /\ UNCHANGED calc_vars

----------------------------------------------------------------------------
\* Parameter setup as a state machine.

\* species entries that give number_density only
SpeciesEntries ==
    [num : 1 .. MaxNum, keys : {{"number_density"}}, number_density : 1 .. MaxDensity,
     mass_density : {0}, A : {1}]

SpeciesLists == UNION {[1 .. n -> SpeciesEntries] : n \in 1 .. MaxSpecies}

SideLists == {<<>>} \cup [1 .. 3 -> 1 .. MaxSide]

\* documents with the Particles, Potential, BoundaryConditions and Control
\* (Np_per_side) sections only
Configs ==
    [species : SpeciesLists,
     potential_type : {"EGS"},
     potential_method : {"PP", "P3M"},
     potential_rc : 1 .. MaxCutoff,
     periodic : {<<>>, <<"x", "y", "z">>},
     momentum_mirror : {<<>>, <<"x">>},
     open : {<<>>, <<"z">>},
     Np_per_side : SideLists,
     P3M_cao : {None},
     Magnetized_elec_therm : {None},
     Integrator_type : {None},
     last_section : {"Control"},
     job_dir : {None},
     job_id : {None}]

NoArgs == [job_dir |-> None, job_id |-> None]

PotentialsIdle ==
    /\ family = "none"
    /\ method = "PP"
    /\ ptype = "unset"
    /\ a_rs = 0
    /\ rc = 0
    /\ species_charges = <<>>
    /\ nu = 0
    /\ params_b = 0
    /\ egs_fp = <<>>
    /\ tabulated_file = NoFile
    /\ matrix = <<>>
    /\ force = "none"
    /\ pot_pc = "idle"
    /\ pot_err = "none"
    /\ egs_call = NoEgsCall
    /\ tab_call = NoTabCall

\* the state before Params.common_parser runs
ParamsStart ==
    /\ params = Params__init__
    /\ par_pc = "start"
    /\ par_err = "none"
    /\ fe_call = NoFeCall
    /\ PotentialsIdle
    /\ PostIdle
    /\ CalcIdle

InitParams ==
    /\ cfg \in Configs
    /\ args = NoArgs
    /\ fs = {}
    /\ ParamsStart

NextParams ==
    \/ CommonParser
    \/ AssignAttributes

SpecParams == InitParams /\ [][NextParams]_vars

\* a one-species periodic document, the base of the documents below
BaseConfig ==
    [species |-> <<[num |-> 1, keys |-> {"number_density"}, number_density |-> 1,
                    mass_density |-> 0, A |-> 1]>>,
     potential_type |-> "EGS",
     potential_method |-> "PP",
     potential_rc |-> 1,
     periodic |-> <<"x", "y", "z">>,
     momentum_mirror |-> <<>>,
     open |-> <<>>,
     Np_per_side |-> <<>>,
     P3M_cao |-> None,
     Magnetized_elec_therm |-> None,
     Integrator_type |-> None,
     last_section |-> "Control",
     job_dir |-> None,
     job_id |-> None]

CaoValues == {None} \cup {Some(v) : v \in 0 .. MaxCao}

IntegratorTypes == {"Verlet", "Magnetic_Verlet"}

\* the section a document ends with is one it contains
LastSections(mag, it) ==
    {"Control"} \cup (IF it # None THEN {"Integrator"} ELSE {})
                \cup (IF mag # None THEN {"Magnetized"} ELSE {})

\* documents with P3M, Magnetized and Integrator sections
SectionConfigs ==
    UNION {{[BaseConfig EXCEPT !.potential_method = m, !.P3M_cao = cao,
                               !.Magnetized_elec_therm = mag, !.Integrator_type = it,
                               !.last_section = last] :
               m \in {"PP", "P3M"}, cao \in CaoValues, last \in LastSections(mag, it)} :
           mag \in {None, Some(TRUE), Some(FALSE)},
           it \in {None} \cup {Some(t) : t \in IntegratorTypes}}

InitSections ==
    /\ cfg \in SectionConfigs
    /\ args = NoArgs
    /\ fs = {}
    /\ ParamsStart

NextSections ==
    \/ CommonParser
    \/ AssignAttributes
    \/ ForceErrorCall

SpecSections == InitSections /\ [][NextSections]_vars

\* documents whose Control section gives job_dir and job_id or leaves them out
DirConfigs ==
    {[BaseConfig EXCEPT !.job_dir = jd, !.job_id = ji] :
        jd \in {None, Some(<<"run">>), Some(<<"out", "run">>)},
        ji \in {None, Some(<<"id_yaml">>)}}

\* command lines with and without the job_dir and job_id options
ArgsSet ==
    [job_dir : {None, Some(<<"run_arg">>)},
     job_id : {None, Some(<<"id_arg">>)}]

\* the directories that exist before setup: none, the simulations directory,
\* or the simulations directory with the job directory of an earlier run
FsStates ==
    {{}, {<<"Simulations">>}, {<<"Simulations">>, <<"Simulations", "run">>}}

InitDirs ==
    /\ cfg \in DirConfigs
    /\ args \in ArgsSet
    /\ fs \in FsStates
    /\ ParamsStart

NextDirs ==
    \/ CommonParser
    \/ CreateDirectories

SpecDirs == InitDirs /\ [][NextDirs]_vars

\* species entries with every combination of the number_density and
\* mass_density keys; a key the entry leaves out has no value
DensityEntries ==
    UNION {[num : 1 .. MaxNum,
            keys : {keys},
            number_density : IF "number_density" \in keys THEN 1 .. MaxDensity ELSE {0},
            mass_density : IF "mass_density" \in keys THEN 1 .. MaxDensity ELSE {0},
            A : {1, 2}] :
           keys \in SUBSET {"number_density", "mass_density"}}

DensityConfigs ==
    {[BaseConfig EXCEPT !.species = sp] :
        sp \in UNION {[1 .. n -> DensityEntries] : n \in 1 .. MaxSpecies}}

InitDensities ==
    /\ cfg \in DensityConfigs
    /\ args = NoArgs
    /\ fs = {}
    /\ ParamsStart

NextDensities ==
    \/ CommonParser
    \/ AssignAttributes

SpecDensities == InitDensities /\ [][NextDensities]_vars

----------------------------------------------------------------------------
\* Properties of parameter setup (checked under SpecParams).

SetupEnded == par_pc \in {"assigned", "exited", "raised"}

\* C8: a configuration that requests momentum-mirror or open boundary
\* conditions on any axis is rejected during setup: assign_attributes never
\* returns normally when BC.mm_axes or BC.open_axes is non-empty.
C8_RejectsMirrorAndOpen ==
    (SetupEnded /\ (Len(params.mm_axes) # 0 \/ Len(params.open_axes) # 0)) =>
        par_pc # "assigned"

\* C9 as stated: when np_per_side is given, every configuration whose
\* np_per_side entries do not add up to N is rejected by assign_attributes, and
\* every configuration whose entries add up to N passes that check.
C9_NpPerSideSum ==
    (SetupEnded /\ Len(params.np_per_side) # 0) =>
        LET total == params.np_per_side[1] + params.np_per_side[2] + params.np_per_side[3] IN
        /\ total # params.total_num_ptcls => par_pc # "assigned"
        /\ total = params.total_num_ptcls => par_err # "AssertionError"

\* C9 amended: when np_per_side is given, every configuration whose np_per_side
\* entries do not multiply to N is rejected by assign_attributes with an
\* AssertionError, and every configuration whose entries multiply to N passes
\* that check.
C9_NpPerSideProduct ==
    (SetupEnded /\ Len(params.np_per_side) # 0) =>
        LET total == params.np_per_side[1] * params.np_per_side[2] * params.np_per_side[3] IN
        /\ total # params.total_num_ptcls =>
              (par_pc = "raised" /\ par_err = "AssertionError")
        /\ total = params.total_num_ptcls => par_err # "AssertionError"

\* C9 witness: setup completed with np_per_side multiplying, but not adding, to N
C9_Witness ==
    /\ par_pc = "assigned"
    /\ Len(params.np_per_side) # 0
    /\ params.np_per_side[1] * params.np_per_side[2] * params.np_per_side[3]
          = params.total_num_ptcls
    /\ params.np_per_side[1] + params.np_per_side[2] + params.np_per_side[3]
          # params.total_num_ptcls

\* C10: whenever common_parser followed by assign_attributes completes normally,
\* rc <= min(Lx, Ly, Lz) / 2, i.e. (2 rc)^3 * n <= L_k^3 * n on every axis.
C10_CutoffWithinHalfBox ==
    par_pc = "assigned" =>
        \A k \in 1 .. 3 :
            8 * (params.potential_rc ^ 3) * params.total_num_density <= params.Lv3[k]

----------------------------------------------------------------------------
\* Properties of the P3M, Magnetized and Integrator sections (checked under
\* SpecSections).

\* C11: a charge assignment order outside 1..7 is rejected during setup: once
\* the P3M section is parsed pppm.cao is in 1..7, and force_error_approx_pppm is
\* only called with a p for which a Cmp table of exactly p entries is defined.
C11_CaoWithinTable ==
    /\ (par_pc # "start" /\ params.pppm_on) =>
          (params.pppm_cao # None /\ params.pppm_cao[1] \in 1 .. 7)
    /\ fe_call.done =>
          (fe_call.raised = "none" /\ fe_call.table = Some(fe_call.p))

\* C12: whenever the document has a Magnetized section, the integrator selected
\* after parsing is the magnetic Verlet integrator, for both values of
\* elec_therm; elec_therm never replaces it by plain Verlet.
C12_MagnetizedKeepsMagneticVerlet ==
    (par_pc # "start" /\ params.Magnetic_on) =>
        params.integrator_type = Some("Magnetic_Verlet")

----------------------------------------------------------------------------
\* Properties of Params.create_directories (checked under SpecDirs).

\* create_directories has ended, by returning or by raising
DirsEnded == par_pc \in {"dirs", "raised"}

\* C15: for every parsed configuration and every combination of command-line
\* arguments create_directories completes normally, the simulations directory,
\* the job directory, the production dump directory, the equilibration
\* directory and its dumps subdirectory exist afterwards, and log_file is
\* <simulations_dir>/<job_dir>/log.out when none was preset.
C15_CreateDirectoriesCompletes ==
    DirsEnded =>
        /\ par_pc = "dirs"
        /\ par_err = "none"
        /\ {params.simulations_dir, params.job_dir[1], params.dump_dir[1],
            params.therm_dir[1], params.therm_dump_dir[1]} \subseteq fs
        /\ params.log_file = Some(path_join(params.job_dir[1], <<"log.out">>))

\* the job directory name the options and the document select
SelectedJobDir ==
    IF args.job_dir # None THEN args.job_dir
    ELSE IF cfg.job_dir # None THEN cfg.job_dir
    ELSE Some(<<"job_dir">>)

\* the job id the options and the document select
SelectedJobId ==
    IF args.job_id # None THEN args.job_id
    ELSE IF cfg.job_id # None THEN cfg.job_id
    ELSE IF args.job_dir # None THEN args.job_dir
    ELSE Some(<<"jobid">>)

----------------------------------------------------------------------------
\* Properties of the species densities (checked under SpecDensities).

\* C18: after common_parser followed by assign_attributes, total_num_density
\* equals the sum over the species of the final species num_density, for every
\* combination of number_density and mass_density keys of the species entries
\* (including a species that gives both).
C18_TotalDensityIsSumOfSpecies ==
    par_pc = "assigned" =>
        params.total_num_density =
            SeqSum([k \in 1 .. Len(params.species) |-> params.species[k].num_density[1]])

----------------------------------------------------------------------------
\* sarkas/tools/postprocessing.py: the loops that split the particle arrays by
\* species (calc_elec_current, calc_nkt, calc_vkt, calc_pressure_tensor).

\* faulty variant of sp_end_of: the offset of the species is forgotten
sp_end_of_count(sp_start, n) == n

\* sp_end = sp_start + sp_num[s]
sp_end_of(sp_start, n) == sp_start + n

RECURSIVE species_ranges(_, _)
\* the body of `for s in range(num_species)`, from the species that remain and
\* the current sp_start: the [sp_start, sp_end) of every species, in order
species_ranges(sp_num, sp_start) ==
    IF Len(sp_num) = 0
    THEN <<>>
    ELSE LET sp_end == sp_end_of(sp_start, Head(sp_num)) IN
         <<[sp_start |-> sp_start, sp_end |-> sp_end]>>
            \o species_ranges(Tail(sp_num), sp_end)

\* the particle indices a[sp_start:sp_end] selects from an axis of length n
slice_indices(n, sp_start, sp_end) == {i \in 0 .. n - 1 : sp_start <= i /\ i < sp_end}

\* one of the four functions on arrays of tot_no_ptcls particles: for every
\* dump, sp_start = 0 and then the loop over the species
calc_by_species(fn, sp_num, n_dumps, tot_no_ptcls) ==
    [fn |-> fn,
     tot_no_ptcls |-> tot_no_ptcls,
     ranges |-> [it \in 1 .. n_dumps |-> species_ranges(sp_num, 0)],
     ptcls |-> [it \in 1 .. n_dumps |->
                  LET rg == species_ranges(sp_num, 0) IN
                  [s \in 1 .. Len(sp_num) |->
                      slice_indices(tot_no_ptcls, rg[s].sp_start, rg[s].sp_end)]]]

NoPartCall == [fn |-> "none", tot_no_ptcls |-> 0, ranges |-> <<>>, ptcls |-> <<>>]

CalcElecCurrent ==
    /\ part.fn = "none"
    /\ part' = calc_by_species("calc_elec_current", species_np, no_dumps, SeqSum(species_np))
    /\ UNCHANGED <<species_np, no_dumps, control, dumps, therm_call, obs, disk>>
    /\ UNCHANGED pot_vars
    /\ UNCHANGED par_vars
    /\ UNCHANGED calc_vars

CalcNkt ==
    /\ part.fn = "none"
    /\ part' = calc_by_species("calc_nkt", species_np, no_dumps, SeqSum(species_np))
    /\ UNCHANGED <<species_np, no_dumps, control, dumps, therm_call, obs, disk>>
    /\ UNCHANGED pot_vars
    /\ UNCHANGED par_vars
    /\ UNCHANGED calc_vars

CalcVkt ==
    /\ part.fn = "none"
    /\ part' = calc_by_species("calc_vkt", species_np, no_dumps, SeqSum(species_np))
    /\ UNCHANGED <<species_np, no_dumps, control, dumps, therm_call, obs, disk>>
    /\ UNCHANGED pot_vars
    /\ UNCHANGED par_vars
    /\ UNCHANGED calc_vars

\* calc_pressure_tensor handles the arrays of one dump
CalcPressureTensor ==
    /\ part.fn = "none"
    /\ part' = calc_by_species("calc_pressure_tensor", species_np, 1, SeqSum(species_np))
    /\ UNCHANGED <<species_np, no_dumps, control, dumps, therm_call, obs, disk>>
    /\ UNCHANGED pot_vars
    /\ UNCHANGED par_vars
    /\ UNCHANGED calc_vars

SpeciesCounts == UNION {[1 .. n -> 0 .. MaxCount] : n \in 1 .. MaxKinds}

InitPartition ==
    /\ species_np \in SpeciesCounts
    /\ no_dumps \in 1 .. MaxDumps
    /\ part = NoPartCall
    /\ control = <<>>
    /\ dumps = <<>>
    /\ therm_call = <<>>
    /\ obs = <<>>
    /\ disk = {}
    /\ PotentialsIdle
    /\ ParamsIdle
    /\ CalcIdle

NextPartition ==
    \/ CalcElecCurrent
    \/ CalcNkt
    \/ CalcVkt
    \/ CalcPressureTensor

SpecPartition == InitPartition /\ [][NextPartition]_vars

----------------------------------------------------------------------------
\* Properties of the species partition (checked under SpecPartition).

\* C13: for species counts N_0..N_{S-1} with sum N, the index ranges
\* [sp_start, sp_end) that calc_elec_current, calc_nkt, calc_vkt and
\* calc_pressure_tensor assign to the species are in species order, adjacent,
\* pairwise disjoint and cover exactly 0..N-1, so every particle belongs to
\* exactly one species.
C13_SpeciesPartitionContiguous ==
    part.fn # "none" =>
        \A it \in 1 .. Len(part.ranges) :
            LET rg == part.ranges[it]
                S == Len(species_np)
                N == SeqSum(species_np)
            IN  /\ Len(rg) = S
                /\ rg[1].sp_start = 0
                /\ rg[S].sp_end = N
                /\ \A s \in 1 .. S : rg[s].sp_end - rg[s].sp_start = species_np[s]
                /\ \A s \in 1 .. S - 1 : rg[s].sp_end = rg[s + 1].sp_start
                /\ \A s \in 1 .. S, t \in 1 .. S :
                      s # t => part.ptcls[it][s] \cap part.ptcls[it][t] = {}
                /\ \A i \in 0 .. N - 1 :
                      Cardinality({s \in 1 .. S : i \in part.ptcls[it][s]}) = 1

\* C13 witness: three species, the middle one larger than the first, split
\* over more than one dump
C13_Witness ==
    /\ part.fn = "calc_nkt"
    /\ Len(part.ranges) > 1
    /\ Len(species_np) = 3
    /\ species_np[1] >= 1
    /\ species_np[2] > species_np[1]
    /\ species_np[3] >= 1

----------------------------------------------------------------------------
\* sarkas/tools/postprocessing.py: Thermalization.hermite_plot and
\* Thermalization.moment_ratios_plot.  A dumps directory is the set of the
\* steps whose checkpoint S_checkpoint_<step>.npz it holds.

\* Thermalization.__init__, lines 2004-2007
Thermalization__init__(ctl) ==
    [dump_dir |-> "equilibration", dump_step |-> ctl.therm_dump_step]

\* HermiteCoefficients.__init__ (906-907, 915) and VelocityMoments.__init__
\* (2771-2772, 2781): dump_dir, no_dumps and dump_step of a new observable
Observable__init__(ctl, dirs) ==
    [dump_dir |-> "production",
     no_dumps |-> Cardinality(dirs.production),
     dump_step |-> ctl.dump_step]

RECURSIVE load_dumps(_, _, _, _)
\* the loop `for it in range(self.no_dumps)` of compute (948-951, 2807-2809)
\* from iteration it on: the steps it loads, and the error of the first
\* checkpoint that does not exist
load_dumps(hc, dirs, it, loaded) ==
    IF it >= hc.no_dumps
    THEN [loaded |-> loaded, raised |-> "none"]
    ELSE LET dump == it * hc.dump_step IN
         IF dump \in dirs[hc.dump_dir]
         THEN load_dumps(hc, dirs, it + 1, Append(loaded, dump))
         ELSE [loaded |-> loaded, raised |-> "FileNotFoundError"]

\* hermite_plot (2099-2102) and moment_ratios_plot (2125-2128): a new
\* observable whose dump_dir and no_dumps are replaced, then compute()
thermalization_plot(fn, ctl, dirs) ==
    LET self == Thermalization__init__(ctl)
        hc == [Observable__init__(ctl, dirs) EXCEPT
                   !.dump_dir = self.dump_dir,
                   !.no_dumps = Cardinality(dirs[self.dump_dir])]
        out == load_dumps(hc, dirs, 0, <<>>)
    IN  [fn |-> fn, dump_dir |-> hc.dump_dir, no_dumps |-> hc.no_dumps,
         loaded |-> out.loaded, raised |-> out.raised]

NoThermCall == [fn |-> "none", dump_dir |-> "none", no_dumps |-> 0,
                loaded |-> <<>>, raised |-> "none"]

HermitePlot ==
    /\ therm_call.fn = "none"
    /\ therm_call' = thermalization_plot("hermite_plot", control, dumps)
    /\ UNCHANGED <<species_np, no_dumps, part, control, dumps, obs, disk>>
    /\ UNCHANGED pot_vars
    /\ UNCHANGED par_vars
    /\ UNCHANGED calc_vars

MomentRatiosPlot ==
    /\ therm_call.fn = "none"
    /\ therm_call' = thermalization_plot("moment_ratios_plot", control, dumps)
    /\ UNCHANGED <<species_np, no_dumps, part, control, dumps, obs, disk>>
    /\ UNCHANGED pot_vars
    /\ UNCHANGED par_vars
    /\ UNCHANGED calc_vars

\* the checkpoints of n dumps written every step timesteps
DumpSteps(n, step) == {k * step : k \in 0 .. n - 1}

InitThermalization ==
    /\ \E ds \in 1 .. MaxStep, ts \in 1 .. MaxStep, np \in 0 .. MaxDumps, nt \in 0 .. MaxDumps :
          /\ control = [dump_step |-> ds, therm_dump_step |-> ts]
          /\ dumps = [production |-> DumpSteps(np, ds), equilibration |-> DumpSteps(nt, ts)]
    /\ therm_call = NoThermCall
    /\ species_np = <<>>
    /\ no_dumps = 0
    /\ part = <<>>
    /\ obs = <<>>
    /\ disk = {}
    /\ PotentialsIdle
    /\ ParamsIdle
    /\ CalcIdle

NextThermalization ==
    \/ HermitePlot
    \/ MomentRatiosPlot

SpecThermalization == InitThermalization /\ [][NextThermalization]_vars

----------------------------------------------------------------------------
\* Properties of the thermalization plots (checked under SpecThermalization).

\* C14: Thermalization.hermite_plot and Thermalization.moment_ratios_plot load,
\* for it = 0..no_dumps-1, the checkpoint of step it * therm_dump_step from the
\* equilibration dumps directory, also when therm_dump_step differs from
\* dump_step.
C14_ThermalizationCadence ==
    therm_call.fn # "none" =>
        /\ therm_call.dump_dir = "equilibration"
        /\ therm_call.raised = "none"
        /\ therm_call.loaded =
              [k \in 1 .. Cardinality(dumps.equilibration) |->
                  (k - 1) * control.therm_dump_step]

----------------------------------------------------------------------------
\* sarkas/tools/postprocessing.py: parse() and compute() of the observables.
\* The files of an observable are "csv" (filename_csv; l_filename_csv of the
\* current correlation functions), "csv_t" (t_filename_csv), "k_file" and
\* "kt_file" (nkt_file, vkt_file).  A dataframe is "unset", "loaded" (read from
\* the csv file) or "computed".

\* the observables whose compute() caches n(k,t) or v(k,t) and the k arrays
KSpaceKinds == {"StaticStructureFactor", "DynamicStructureFactor",
                "CurrentCorrelationFunctions"}

ObservableKinds == KSpaceKinds \cup {"ElectricCurrent", "VelocityAutocorrelationFunctions",
                                     "HermiteCoefficients", "VelocityMoments"}

\* the files an observable of this kind reads and writes
files_of(kind) ==
    IF kind = "CurrentCorrelationFunctions" THEN {"csv", "csv_t", "k_file", "kt_file"}
    ELSE IF kind \in KSpaceKinds THEN {"csv", "k_file", "kt_file"}
    ELSE {"csv"}

\* the csv files of an observable
csv_of(kind) == IF kind = "CurrentCorrelationFunctions" THEN {"csv", "csv_t"} ELSE {"csv"}

\* __init__ of an observable: no dataframe yet
Observable_new(kind) ==
    [kind |-> kind, dataframe |-> "unset", dataframe_l |-> "unset", dataframe_t |-> "unset",
     k_list |-> FALSE,
     \* the parse calls made, the compute calls they made, and, for the last
     \* parse, whether the csv file(s) existed and whether it called compute
     parses |-> 0, computes |-> 0, csv_existed |-> FALSE, computed |-> FALSE]

\* compute(): [obs, disk].  The k-space observables load kt_file and k_file or,
\* when one is missing, compute and save both (225-256, 526-549, 1388-1410);
\* every compute builds the dataframe(s) and writes the csv file(s).
observable_compute(o, files) ==
    LET files1 == IF o.kind \in KSpaceKinds /\ ~({"kt_file", "k_file"} \subseteq files)
                  THEN files \cup {"k_file", "kt_file"}
                  ELSE files
        o1 == [o EXCEPT !.k_list = (o.kind \in KSpaceKinds) \/ o.k_list,
                        !.computes = o.computes + 1,
                        !.computed = TRUE]
    IN  IF o.kind = "CurrentCorrelationFunctions"
        THEN [obs |-> [o1 EXCEPT !.dataframe_l = "computed", !.dataframe_t = "computed"],
              disk |-> files1 \cup {"csv", "csv_t"}]
        ELSE [obs |-> [o1 EXCEPT !.dataframe = "computed"],
              disk |-> files1 \cup {"csv"}]

\* the try block of parse(): the attributes it sets before the first file that
\* is missing, and whether FileNotFoundError was raised
observable_try(o, files) ==
    IF o.kind = "CurrentCorrelationFunctions"
    THEN IF "csv" \notin files
         THEN [obs |-> o, missing |-> TRUE]
         ELSE IF "csv_t" \notin files
         THEN [obs |-> [o EXCEPT !.dataframe_l = "loaded"], missing |-> TRUE]
         ELSE IF "k_file" \notin files
         THEN [obs |-> [o EXCEPT !.dataframe_l = "loaded", !.dataframe_t = "loaded"],
               missing |-> TRUE]
         ELSE [obs |-> [o EXCEPT !.dataframe_l = "loaded", !.dataframe_t = "loaded",
                                 !.k_list = TRUE],
               missing |-> FALSE]
    ELSE IF "csv" \notin files
    THEN [obs |-> o, missing |-> TRUE]
    ELSE IF o.kind = "DynamicStructureFactor"
    THEN IF "k_file" \notin files
         THEN [obs |-> [o EXCEPT !.dataframe = "loaded"], missing |-> TRUE]
         ELSE [obs |-> [o EXCEPT !.dataframe = "loaded", !.k_list = TRUE], missing |-> FALSE]
    ELSE [obs |-> [o EXCEPT !.dataframe = "loaded"], missing |-> FALSE]

\* parse(): the try block, and compute() after a FileNotFoundError
observable_parse(o, files) ==
    LET o0 == [o EXCEPT !.parses = o.parses + 1,
                        !.csv_existed = csv_of(o.kind) \subseteq files,
                        !.computed = FALSE]
        t == observable_try(o0, files)
    IN  IF t.missing
        THEN observable_compute(t.obs, files)
        ELSE [obs |-> t.obs, disk |-> files]

\* <observable>.parse()
Parse ==
    /\ obs.parses < MaxParses
    /\ LET out == observable_parse(obs, disk) IN
          /\ obs' = out.obs
          /\ disk' = out.disk
    /\ UNCHANGED <<species_np, no_dumps, part, control, dumps, therm_call>>
    /\ UNCHANGED pot_vars
    /\ UNCHANGED par_vars
    /\ UNCHANGED calc_vars

InitObservables ==
    /\ \E kind \in ObservableKinds :
          /\ obs = Observable_new(kind)
          /\ disk \in SUBSET files_of(kind)
    /\ species_np = <<>>
    /\ no_dumps = 0
    /\ part = <<>>
    /\ control = <<>>
    /\ dumps = <<>>
    /\ therm_call = <<>>
    /\ PotentialsIdle
    /\ ParamsIdle
    /\ CalcIdle

NextObservables == Parse

SpecObservables == InitObservables /\ [][NextObservables]_vars

----------------------------------------------------------------------------
\* Properties of the observables (checked under SpecObservables).

\* C17: parse() of an observable loads the saved CSV without calling compute
\* when the CSV exists and calls compute exactly when it is missing; compute
\* writes the CSV to the path parse reads, so in any sequence of parse calls
\* compute runs at most once, and self.dataframe is set after every parse.
C17_ParseComputesOnlyWhenCsvMissing ==
    obs.parses > 0 =>
        /\ obs.csv_existed => ~obs.computed
        /\ ~obs.csv_existed => obs.computed
        /\ csv_of(obs.kind) \subseteq disk
        /\ obs.computes <= 1
        /\ obs.dataframe # "unset"

----------------------------------------------------------------------------
\* sarkas/tools/postprocessing.py: the 1D correlation functions.

\* longest time series
MaxSteps == 3
\* the entries of a time series are -MaxVal .. MaxVal
MaxVal == 1

\* ACF / Norm_counter entry by entry: the quotient is kept as the pair it divides
array_divide(num, den) == [k \in 1 .. Len(num) |-> [num |-> num[k], den |-> den[k]]]

\* ACF[: no_steps - it] += At[it] * Bt[it:no_steps]
add_lagged_products(CF, A, B, it) ==
    [k \in 1 .. Len(CF) |->
        IF k <= Len(A) - it THEN CF[k] + A[it + 1] * B[it + k] ELSE CF[k]]

\* a counter that counts every step at every lag: Norm_counter += 1.0
add_count_all(Norm_counter, no_steps, it) ==
    [k \in 1 .. Len(Norm_counter) |-> Norm_counter[k] + 1]

\* Norm_counter[: no_steps - it] += 1.0
add_count(Norm_counter, no_steps, it) ==
    [k \in 1 .. Len(Norm_counter) |->
        IF k <= no_steps - it THEN Norm_counter[k] + 1 ELSE Norm_counter[k]]

\* for it in range(no_steps): the loop of both 1D functions, from step it on
RECURSIVE correlation_loop(_, _, _, _, _)
correlation_loop(A, B, CF, Norm_counter, it) ==
    IF it >= Len(A)
    THEN array_divide(CF, Norm_counter)
    ELSE correlation_loop(A, B, add_lagged_products(CF, A, B, it),
                          add_count(Norm_counter, Len(A), it), it + 1)

\* np.zeros(no_steps)
np_zeros(n) == [k \in 1 .. n |-> 0]

autocorrelationfunction_1D(A) ==
    correlation_loop(A, A, np_zeros(Len(A)), np_zeros(Len(A)), 0)

correlationfunction_1D(A, B) ==
    correlation_loop(A, B, np_zeros(Len(A)), np_zeros(Len(A)), 0)

AutoCorrelation1D ==
    /\ acf_ret = None
    /\ acf_ret' = Some(autocorrelationfunction_1D(series))
    /\ UNCHANGED <<series, cf_ret>>
    /\ UNCHANGED kspace_vars
    /\ UNCHANGED vacf_vars
    /\ UNCHANGED transport_vars
    /\ UNCHANGED skw_vars
    /\ UNCHANGED plot_vars
    /\ UNCHANGED pot_vars
    /\ UNCHANGED par_vars
    /\ UNCHANGED post_vars

Correlation1D ==
    /\ cf_ret = None
    /\ cf_ret' = Some(correlationfunction_1D(series, series))
    /\ UNCHANGED <<series, acf_ret>>
    /\ UNCHANGED kspace_vars
    /\ UNCHANGED vacf_vars
    /\ UNCHANGED transport_vars
    /\ UNCHANGED skw_vars
    /\ UNCHANGED plot_vars
    /\ UNCHANGED pot_vars
    /\ UNCHANGED par_vars
    /\ UNCHANGED post_vars

TimeSeries == UNION {[1 .. n -> (0 - MaxVal) .. MaxVal] : n \in 0 .. MaxSteps}

InitCorrelation ==
    /\ series \in TimeSeries
    /\ acf_ret = None
    /\ cf_ret = None
    /\ KSpaceIdle
    /\ VacfIdle
    /\ TransportIdle
    /\ SkwIdle
    /\ PlotIdle
    /\ PotentialsIdle
    /\ ParamsIdle
    /\ PostIdle

NextCorrelation ==
    \/ AutoCorrelation1D
    \/ Correlation1D

SpecCorrelation == InitCorrelation /\ [][NextCorrelation]_vars

RECURSIVE lagged_sum(_, _, _)
\* sum of A[i] * A[i + tau] over i = 0 .. last
lagged_sum(A, tau, last) ==
    IF last < 0 THEN 0 ELSE A[last + 1] * A[last + tau + 1] + lagged_sum(A, tau, last - 1)

----------------------------------------------------------------------------
\* sarkas/tools/postprocessing.py: the k-space data the structure factors and the
\* current correlation functions share.

\* largest number of harmonics per direction
MaxKa == 3

\* the k vectors of no_ka harmonics per direction, as index triples; the first
\* row of the sorted array, the zero vector, is dropped (k_arr[1:, :])
kspace_setup(no_ka) ==
    {k \in (0 .. (no_ka - 1)) \X (0 .. (no_ka - 1)) \X (0 .. (no_ka - 1)) :
        k # <<0, 0, 0>>}

\* calc_nkt / calc_vkt: one column per row of k_list
calc_kt(k_list) == [k_list |-> k_list]

NoKFiles == [k_arrays |-> None, nkt |-> None, vkt |-> None]

NoKCompute == [cls |-> "none", no_ka |-> 0, k_list |-> {}, kt |-> calc_kt({})]

\* the try / except FileNotFoundError of a compute: kt_file is "nkt" or "vkt".
\* Both files are loaded; when either is missing the k vectors are built from
\* no_ka, and k_arrays and kt_file are written.
kspace_compute(cls, no_ka, kt_file, files) ==
    IF files[kt_file] # None /\ files.k_arrays # None
    THEN [files |-> files,
          call |-> [cls |-> cls, no_ka |-> no_ka, k_list |-> files.k_arrays[1],
                    kt |-> files[kt_file][1]]]
    ELSE LET k_list == kspace_setup(no_ka)
             kt == calc_kt(k_list)
         IN [files |-> [[files EXCEPT !.k_arrays = Some(k_list)]
                           EXCEPT ![kt_file] = Some(kt)],
             call |-> [cls |-> cls, no_ka |-> no_ka, k_list |-> k_list, kt |-> kt]]

\* StaticStructureFactor.compute
SsfCompute ==
    LET r == kspace_compute("ssf", PostProcessing.ssf_no_ka_values, "nkt", k_space_data)
    IN /\ k_space_data' = r.files
       /\ k_compute' = r.call
       /\ UNCHANGED PostProcessing
       /\ UNCHANGED corr_vars
       /\ UNCHANGED vacf_vars
       /\ UNCHANGED transport_vars
       /\ UNCHANGED skw_vars
       /\ UNCHANGED plot_vars
       /\ UNCHANGED pot_vars
       /\ UNCHANGED par_vars
       /\ UNCHANGED post_vars

\* DynamicStructureFactor.compute
DsfCompute ==
    LET r == kspace_compute("dsf", PostProcessing.dsf_no_ka_values, "nkt", k_space_data)
    IN /\ k_space_data' = r.files
       /\ k_compute' = r.call
       /\ UNCHANGED PostProcessing
       /\ UNCHANGED corr_vars
       /\ UNCHANGED vacf_vars
       /\ UNCHANGED transport_vars
       /\ UNCHANGED skw_vars
       /\ UNCHANGED plot_vars
       /\ UNCHANGED pot_vars
       /\ UNCHANGED par_vars
       /\ UNCHANGED post_vars

\* CurrentCorrelationFunctions.compute
CcfCompute ==
    LET r == kspace_compute("ccf", PostProcessing.dsf_no_ka_values, "vkt", k_space_data)
    IN /\ k_space_data' = r.files
       /\ k_compute' = r.call
       /\ UNCHANGED PostProcessing
       /\ UNCHANGED corr_vars
       /\ UNCHANGED vacf_vars
       /\ UNCHANGED transport_vars
       /\ UNCHANGED skw_vars
       /\ UNCHANGED plot_vars
       /\ UNCHANGED pot_vars
       /\ UNCHANGED par_vars
       /\ UNCHANGED post_vars

InitKSpace ==
    /\ PostProcessing \in [ssf_no_ka_values : 1 .. MaxKa, dsf_no_ka_values : 1 .. MaxKa]
    /\ k_space_data = NoKFiles
    /\ k_compute = NoKCompute
    /\ CorrIdle
    /\ VacfIdle
    /\ TransportIdle
    /\ SkwIdle
    /\ PlotIdle
    /\ PotentialsIdle
    /\ ParamsIdle
    /\ PostIdle

NextKSpace ==
    \/ SsfCompute
    \/ DsfCompute
    \/ CcfCompute

SpecKSpace == InitKSpace /\ [][NextKSpace]_vars

\* C22: whenever k_arrays.npz and nkt.npy both exist, nkt.npy was computed from
\* the k_list stored in k_arrays.npz, and the k_list a compute uses was built
\* from the number of harmonics configured for that observable.
C22_KSpaceCacheConsistent ==
    /\ (k_space_data.k_arrays # None /\ k_space_data.nkt # None)
          => k_space_data.nkt[1].k_list = k_space_data.k_arrays[1]
    /\ k_compute.cls # "none" => k_compute.k_list = kspace_setup(k_compute.no_ka)

----------------------------------------------------------------------------
\* sarkas/tools/postprocessing.py: VelocityAutocorrelationFunctions.compute and
\* calc_vacf.  An entry of calc_vacf's output is kept as the pair of species
\* whose fluxes it correlates, the direction, and whether it was time averaged.

\* the rows of the second axis of jc_acf: x, y, z and the total
VacfDirs == <<"X", "Y", "Z", "Total">>

RECURSIVE vacf_pairs(_, _, _)
\* for i in range(no_species): for j in range(i, no_species): ... indx += 1
vacf_pairs(i, j, no_species) ==
    IF i >= no_species THEN <<>>
    ELSE IF j >= no_species THEN vacf_pairs(i + 1, i + 1, no_species)
    ELSE <<<<i, j>>>> \o vacf_pairs(i, j + 1, no_species)

\* jc_acf[indx, d, :] for every indx and d
calc_vacf(sp_num, time_averaging) ==
    LET pairs == vacf_pairs(0, 0, Len(sp_num))
    IN [indx \in 1 .. Len(pairs) |->
           [d \in 1 .. 4 |-> [sp1 |-> pairs[indx][1], sp2 |-> pairs[indx][2],
                              dir |-> VacfDirs[d], averaged |-> time_averaging]]]

\* the four columns written from vacf[v_ij, 0..3, :]
vacf_columns(kind, sp, sp2, vacf, v_ij) ==
    [c \in {<<kind, sp, sp2, VacfDirs[d]>> : d \in 1 .. 4} |->
        vacf[v_ij + 1][CHOOSE d \in 1 .. 4 : VacfDirs[d] = c[4]]]

RECURSIVE vacf_save_currents(_, _, _, _, _, _)
\* for sp2 in range(sp + 1, no_species): v_ij += 1; four Current ACF columns
vacf_save_currents(df, vacf, sp, sp2, v_ij, no_species) ==
    IF sp2 >= no_species THEN [df |-> df, v_ij |-> v_ij]
    ELSE vacf_save_currents(vacf_columns("Current ACF", sp, sp2, vacf, v_ij + 1) @@ df,
                            vacf, sp, sp2 + 1, v_ij + 1, no_species)

RECURSIVE vacf_save(_, _, _, _, _)
\* for sp in range(no_species): four Velocity ACF columns, then the currents
vacf_save(df, vacf, sp, v_ij, no_species) ==
    IF sp >= no_species THEN df
    ELSE LET r == vacf_save_currents(vacf_columns("Velocity ACF", sp, sp, vacf, v_ij) @@ df,
                                     vacf, sp, sp + 1, v_ij, no_species)
         IN vacf_save(r.df, vacf, sp + 1, r.v_ij, no_species)

\* the dataframe before any column of vacf is stored
EmptyFrame == [c \in {} |-> 0]

VacfCompute ==
    /\ vacf_df = None
    /\ vacf_df' = Some(vacf_save(EmptyFrame,
                                 calc_vacf(vacf_in.species_np, vacf_in.time_averaging),
                                 0, 0, Len(vacf_in.species_np)))
    /\ UNCHANGED vacf_in
    /\ UNCHANGED corr_vars
    /\ UNCHANGED kspace_vars
    /\ UNCHANGED transport_vars
    /\ UNCHANGED skw_vars
    /\ UNCHANGED plot_vars
    /\ UNCHANGED pot_vars
    /\ UNCHANGED par_vars
    /\ UNCHANGED post_vars

InitVacf ==
    /\ vacf_in \in [species_np : SpeciesCounts, time_averaging : BOOLEAN]
    /\ vacf_df = None
    /\ CorrIdle
    /\ KSpaceIdle
    /\ TransportIdle
    /\ SkwIdle
    /\ PlotIdle
    /\ PotentialsIdle
    /\ ParamsIdle
    /\ PostIdle

NextVacf == VacfCompute

SpecVacf == InitVacf /\ [][NextVacf]_vars

\* C23: for every number of species, the Velocity ACF columns of species s hold
\* the (s, s) entry of calc_vacf's output and the Current ACF columns of s, s2
\* hold the (s, s2) entry.
C23_VacfColumnsMatchPairs ==
    vacf_df # None =>
        \A c \in DOMAIN vacf_df[1] :
            /\ vacf_df[1][c].sp1 = c[2]
            /\ vacf_df[1][c].sp2 = c[3]
            /\ vacf_df[1][c].dir = c[4]

----------------------------------------------------------------------------
\* sarkas/tools/postprocessing.py: Transport.  A path is its sequence of
\* components; an absolute path starts with the component "/"; a relative path
\* names a file under the working directory.

\* most calls of compute on one Transport object
MaxCalls == 3

\* os.path.join(a, b): an absolute b drops a
os_path_join(a, b) == IF b # <<>> /\ b[1] = "/" THEN b ELSE a \o b

\* the quantities compute has a branch for, and one it has none for
Quantities == {"Electrical Conductivity", "Diffusion", "Interdiffusion", "Viscosity", "other"}

\* the columns a branch of compute stores in self.dataframe, by quantity
transport_columns(quantity) == IF quantity = "other" THEN {} ELSE {quantity}

\* pd.read_csv(path): the columns of the file, when it exists
read_csv(files, path) ==
    IF \E f \in files : f.path = path
    THEN Some((CHOOSE f \in files : f.path = path).columns)
    ELSE None

\* DataFrame.to_csv(path): the file is created or replaced
to_csv(files, path, columns) ==
    {f \in files : f.path # path} \cup {[path |-> path, columns |-> columns]}

\* Transport.__init__
Transport__init__(checkpoint_dir) ==
    [checkpoint_dir |-> checkpoint_dir,
     dataframe |-> {},
     filename_csv |-> <<"TransportCoefficients.csv">>,
     calls |-> 0,
     read |-> <<>>,
     loaded |-> None,
     written |-> <<>>]

\* Transport.compute(params, quantity)
Transport_compute(t, files, quantity) ==
    LET filename_csv == os_path_join(t.checkpoint_dir, t.filename_csv)
        loaded == read_csv(files, filename_csv)
        dataframe == (IF loaded # None THEN loaded[1] ELSE t.dataframe)
                         \cup transport_columns(quantity)
        written == <<"TransportCoefficients.csv">>
    IN [t |-> [t EXCEPT !.filename_csv = filename_csv,
                        !.dataframe = dataframe,
                        !.calls = @ + 1,
                        !.read = filename_csv,
                        !.loaded = loaded,
                        !.written = written],
        files |-> to_csv(files, written, dataframe)]

TransportCompute ==
    /\ transport # <<>>
    /\ transport.calls < MaxCalls
    /\ \E quantity \in Quantities :
          LET r == Transport_compute(transport, tc_disk, quantity)
          IN /\ transport' = r.t
             /\ tc_disk' = r.files
    /\ UNCHANGED corr_vars
    /\ UNCHANGED kspace_vars
    /\ UNCHANGED vacf_vars
    /\ UNCHANGED skw_vars
    /\ UNCHANGED plot_vars
    /\ UNCHANGED pot_vars
    /\ UNCHANGED par_vars
    /\ UNCHANGED post_vars

\* params.control.checkpoint_dir: relative or absolute
CheckpointDirs ==
    {<<"Simulations", "job_dir">>, <<"checkpoints">>, <<"/", "scratch", "job_dir">>}

\* a TransportCoefficients.csv an earlier session left in checkpoint_dir
SavedEarlier(checkpoint_dir) ==
    to_csv({}, os_path_join(checkpoint_dir, <<"TransportCoefficients.csv">>), {"Diffusion"})

InitTransport ==
    /\ \E checkpoint_dir \in CheckpointDirs :
          /\ transport = Transport__init__(checkpoint_dir)
          /\ tc_disk \in {{}, SavedEarlier(checkpoint_dir)}
    /\ CorrIdle
    /\ KSpaceIdle
    /\ VacfIdle
    /\ SkwIdle
    /\ PlotIdle
    /\ PotentialsIdle
    /\ ParamsIdle
    /\ PostIdle

NextTransport == TransportCompute

SpecTransport == InitTransport /\ [][NextTransport]_vars

\* C24: in every call of compute on one Transport object the CSV path read at
\* the start and the path written at the end are the same file,
\* <checkpoint_dir>/TransportCoefficients.csv, so what one call saved is what
\* the next call loads.
C24_TransportCsvPathStable ==
    (transport # <<>> /\ transport.calls > 0) =>
        /\ transport.read
              = transport.checkpoint_dir \o <<"TransportCoefficients.csv">>
        /\ transport.written = transport.read
        /\ transport.calls > 1 => transport.loaded # None

----------------------------------------------------------------------------
\* sarkas/tools/postprocessing.py: calc_Skw.  A complex number is the pair of
\* its real and imaginary parts.  An entry of Skw is kept as what the buffer
\* held before the loop (base) and the sum the loop added to it: the sum of
\* the numerators num, times norm^2, over ka_counts[indx] * sqrt(si * sj).

\* largest value found in memory that was not initialised
MaxGarbage == 1

\* the values of the density fluctuations
ComplexValues == {<<1, 0>>, <<0, 1>>}

\* no_dumps: the lengths whose discrete Fourier transform has integer entries
DumpCounts == {1, 2}

\* the last column of ka_list, the index of each k vector's magnitude, as
\* kspace_setup numbers them
MagnitudeIndices == {<<0>>, <<0, 0>>, <<0, 1>>}

\* k_counts of np.unique: how often each magnitude index occurs
counts_of(ka_list) ==
    LET no_ka_values == ka_list[Len(ka_list)] + 1
    IN [m \in 1 .. no_ka_values |-> Cardinality({ik \in 1 .. Len(ka_list) : ka_list[ik] = m - 1})]

\* np.fft.fft of a series of length 1 or 2
np_fft(x) ==
    IF Len(x) = 1 THEN x
    ELSE <<<<x[1][1] + x[2][1], x[1][2] + x[2][2]>>,
           <<x[1][1] - x[2][1], x[1][2] - x[2][2]>>>>

\* np.real(np.conj(a) * b)
real_conj_product(a, b) == a[1] * b[1] + a[2] * b[2]

\* nkt[ip, :, ik]
nkt_series(nkt, ip, ik) == [it \in 1 .. Len(nkt[ip]) |-> nkt[ip][it][ik]]

\* the buffers np.empty can hand out: a block that holds one leftover value
\* throughout, or zeros with one leftover entry
np_empty(no_skw, no_ka_values, n_steps) ==
    LET shape == (1 .. no_skw) \X (1 .. no_ka_values) \X (1 .. n_steps)
    IN {[e \in shape |-> g] : g \in 0 .. MaxGarbage}
       \cup {[e \in shape |-> IF e = hot THEN g ELSE 0] : hot \in shape, g \in 1 .. MaxGarbage}

\* the species pairs in the order of pair_indx
skw_pairs(species_np_) == vacf_pairs(0, 0, Len(species_np_))

RECURSIVE skw_added(_, _, _, _, _, _)
\* what the loop over ik has added to Skw[pair_indx, indx, w] after the first
\* ik vectors
skw_added(nkt, ka_list, ip, jp, e, ik) ==
    IF ik = 0 THEN 0
    ELSE skw_added(nkt, ka_list, ip, jp, e, ik - 1)
         + (IF ka_list[ik] = e[2] - 1
            THEN real_conj_product(np_fft(nkt_series(nkt, ip + 1, ik))[e[3]],
                                   np_fft(nkt_series(nkt, jp + 1, ik))[e[3]])
            ELSE 0)

\* calc_Skw on the buffer np.empty returned
calc_Skw(nkt, ka_list, ka_counts, species_np_, buffer) ==
    LET pairs == skw_pairs(species_np_)
    IN [e \in DOMAIN buffer |->
           LET ip == pairs[e[1]][1]
               jp == pairs[e[1]][2]
           IN [base |-> buffer[e],
               num |-> skw_added(nkt, ka_list, ip, jp, e, Len(ka_list)),
               counts |-> ka_counts[e[2]],
               si_sj |-> species_np_[ip + 1] * species_np_[jp + 1]]]

CalcSkw ==
    /\ skw_ret = None
    /\ \E buffer \in np_empty(Len(skw_pairs(skw_in.species_np)), Len(skw_in.ka_counts),
                              skw_in.no_dumps) :
          skw_ret' = Some(calc_Skw(skw_in.nkt, skw_in.ka_list, skw_in.ka_counts,
                                   skw_in.species_np, buffer))
    /\ UNCHANGED skw_in
    /\ UNCHANGED corr_vars
    /\ UNCHANGED kspace_vars
    /\ UNCHANGED vacf_vars
    /\ UNCHANGED transport_vars
    /\ UNCHANGED plot_vars
    /\ UNCHANGED pot_vars
    /\ UNCHANGED par_vars
    /\ UNCHANGED post_vars

InitSkw ==
    /\ \E sp \in UNION {[1 .. n -> 1 .. MaxCount] : n \in 1 .. MaxSpecies},
          T \in DumpCounts, kl \in MagnitudeIndices :
          \E nkt \in [1 .. Len(sp) -> [1 .. T -> [1 .. Len(kl) -> ComplexValues]]] :
              skw_in = [nkt |-> nkt, ka_list |-> kl, ka_counts |-> counts_of(kl),
                        species_np |-> sp, no_dumps |-> T]
    /\ skw_ret = None
    /\ CorrIdle
    /\ KSpaceIdle
    /\ VacfIdle
    /\ TransportIdle
    /\ PlotIdle
    /\ PotentialsIdle
    /\ ParamsIdle
    /\ PostIdle

NextSkw == CalcSkw

SpecSkw == InitSkw /\ [][NextSkw]_vars

\* the sum over the k vectors of magnitude index m of Re(conj(n_i) * n_j) at
\* frequency w
RECURSIVE magnitude_sum(_, _, _, _, _, _)
magnitude_sum(nkt, ka_list, i, j, m, w) ==
    LET ks == {ik \in 1 .. Len(ka_list) : ka_list[ik] = m}
        term(ik) == real_conj_product(np_fft(nkt_series(nkt, i + 1, ik))[w],
                                      np_fft(nkt_series(nkt, j + 1, ik))[w])
    IN IF ks = {} THEN 0
       ELSE LET ik == CHOOSE k \in ks : \A k2 \in ks : k >= k2
            IN term(ik) + magnitude_sum(nkt, SubSeq(ka_list, 1, ik - 1), i, j, m, w)

\* C25: calc_Skw returns for every species pair, magnitude index m and
\* frequency exactly the sum over the k vectors of magnitude index m of
\* Re(conj(n_i) * n_j), over k_counts[m] * sqrt(N_i * N_j), whatever the output
\* buffer held before.
C25_SkwIsMagnitudeAverage ==
    skw_ret # None =>
        \A e \in DOMAIN skw_ret[1] :
            LET pair == skw_pairs(skw_in.species_np)[e[1]]
            IN /\ skw_ret[1][e].base = 0
               /\ skw_ret[1][e].num = magnitude_sum(skw_in.nkt, skw_in.ka_list,
                                                    pair[1], pair[2], e[2] - 1, e[3])
               /\ skw_ret[1][e].counts = skw_in.ka_counts[e[2]]
               /\ skw_ret[1][e].si_sj
                     = skw_in.species_np[pair[1] + 1] * skw_in.species_np[pair[2] + 1]

----------------------------------------------------------------------------
\* sarkas/tools/postprocessing.py: plot_labels.  Every float the two prefix
\* searches handle is a power of ten and is kept as its decimal exponent:
\* x_exp = 10.0 ** e is e, the counter i = 10.0 ** k is k.  A counter above
\* the largest double is inf, which times ten is inf again.

\* the decimal exponents of the data maxima are -MaxExp .. MaxExp
MaxExp == 26
\* the largest decimal exponent of a double
MaxFloatExp == 308

\* PREFIXES, each value as its decimal exponent
PREFIXES ==
    ("Y" :> 24) @@ ("Z" :> 21) @@ ("E" :> 18) @@ ("P" :> 15) @@ ("T" :> 12)
    @@ ("G" :> 9) @@ ("M" :> 6) @@ ("k" :> 3) @@ ("" :> 0) @@ ("c" :> 0 - 2)
    @@ ("m" :> 0 - 3) @@ ("$\\mu$" :> 0 - 6) @@ ("n" :> 0 - 9) @@ ("p" :> 0 - 12)
    @@ ("f" :> 0 - 15) @@ ("a" :> 0 - 18) @@ ("z" :> 0 - 21) @@ ("y" :> 0 - 24)

\* the exponent that stands for inf
FloatInf == MaxFloatExp + 1

\* i *= 10.
times_ten(i) == IF i >= MaxFloatExp THEN FloatInf ELSE i + 1

\* the keys whose ratio i * exp / value is within 1.0e-6 of 1
matching_prefixes(i, exp) ==
    {key \in DOMAIN PREFIXES : i # FloatInf /\ i + exp = PREFIXES[key]}

\* for key, value in PREFIXES.items(): ... prefix = key; mul = i / value.
\* mul stays at the negative start value, None here, when no key matches.
prefix_search(i, exp, prefix, mul) ==
    IF matching_prefixes(i, exp) = {}
    THEN [prefix |-> prefix, mul |-> mul]
    ELSE LET key == CHOOSE k \in matching_prefixes(i, exp) : TRUE
         IN [prefix |-> key, mul |-> Some(i - PREFIXES[key])]

\* plot_labels up to the first while: the exponents are read off the maxima
plot_labels_start ==
    [pc |-> "xloop", i |-> 0 - 1,
     xprefix |-> "none", xmul |-> None, yprefix |-> "none", ymul |-> None]

\* one pass of while xmul < 0: i *= 10., then the search
XLoopIteration ==
    /\ plot_ret # <<>>
    /\ plot_ret.pc = "xloop"
    /\ LET i == times_ten(plot_ret.i)
           r == prefix_search(i, plot_in.x_exp, plot_ret.xprefix, plot_ret.xmul)
       IN plot_ret' = IF r.mul = None
                      THEN [plot_ret EXCEPT !.i = i]
                      ELSE [plot_ret EXCEPT !.pc = "yloop", !.i = 0,
                                            !.xprefix = r.prefix, !.xmul = r.mul]
    /\ UNCHANGED plot_in
    /\ UNCHANGED corr_vars
    /\ UNCHANGED kspace_vars
    /\ UNCHANGED vacf_vars
    /\ UNCHANGED transport_vars
    /\ UNCHANGED skw_vars
    /\ UNCHANGED pot_vars
    /\ UNCHANGED par_vars
    /\ UNCHANGED post_vars

\* one pass of while ymul < 0: the search, then i *= 10.; when the search
\* succeeded the labels are put together and plot_labels returns
YLoopIteration ==
    /\ plot_ret # <<>>
    /\ plot_ret.pc = "yloop"
    /\ LET r == prefix_search(plot_ret.i, plot_in.y_exp, plot_ret.yprefix, plot_ret.ymul)
           i == times_ten(plot_ret.i)
       IN plot_ret' = IF r.mul = None
                      THEN [plot_ret EXCEPT !.i = i]
                      ELSE [plot_ret EXCEPT !.pc = "done", !.i = i,
                                            !.yprefix = r.prefix, !.ymul = r.mul]
    /\ UNCHANGED plot_in
    /\ UNCHANGED corr_vars
    /\ UNCHANGED kspace_vars
    /\ UNCHANGED vacf_vars
    /\ UNCHANGED transport_vars
    /\ UNCHANGED skw_vars
    /\ UNCHANGED pot_vars
    /\ UNCHANGED par_vars
    /\ UNCHANGED post_vars

InitPlotLabels ==
    /\ plot_in \in [x_exp : (0 - MaxExp) .. MaxExp, y_exp : (0 - MaxExp) .. MaxExp]
    /\ plot_ret = plot_labels_start
    /\ CorrIdle
    /\ KSpaceIdle
    /\ VacfIdle
    /\ TransportIdle
    /\ SkwIdle
    /\ PotentialsIdle
    /\ ParamsIdle
    /\ PostIdle

NextPlotLabels ==
    \/ XLoopIteration
    \/ YLoopIteration

\* the interpreter keeps running the loop it is in
SpecPlotLabels == InitPlotLabels /\ [][NextPlotLabels]_vars /\ WF_vars(NextPlotLabels)

\* C26: plot_labels terminates for every decimal exponent of xmax and ymax:
\* both prefix searches find an entry of PREFIXES and the call returns.
C26_PlotLabelsTerminates == <>(plot_ret # <<>> /\ plot_ret.pc = "done")

\* C27: the multiplier and the prefix plot_labels returns for an axis satisfy
\* multiplier * PREFIXES[prefix] = 1, for every decimal exponent of the data
\* maximum.
C27_MultiplierMatchesPrefix ==
    (plot_ret # <<>> /\ plot_ret.pc = "done") =>
        /\ plot_ret.xmul[1] + PREFIXES[plot_ret.xprefix] = 0
        /\ plot_ret.ymul[1] + PREFIXES[plot_ret.yprefix] = 0

====
